---- MODULE Spec2Model ----
(***************************************************************************)
(* wetty-chat backend: the WebSocket connection registry                   *)
(* (backend/src/ws_registry.rs, handlers/ws.rs, main.rs), the message      *)
(* lifecycle handlers (handlers/messages.rs) and the keyset listings       *)
(* (handlers/chats.rs, handlers/messages.rs).                              *)
(***************************************************************************)
EXTENDS Integers, Sequences, FiniteSets, TLC

(***************************************************************************)
(* Bounds of the model.                                                    *)
(***************************************************************************)
\* connection ids handed out by next_conn_id are 0..MaxConn-1
MaxConn == 2
\* capacity of a connection's channel; mpsc::channel(64) in the code, scaled
\* down so that a full channel is reachable
ChannelCap == 2

\* prune_stale(300) in main; PING_TIMEOUT_SECS in handlers/ws.rs
PING_TIMEOUT_SECS == 300

\* the user ids of the model
Uids == {1, 2}
ConnIds == 0..(MaxConn - 1)
\* the payloads handed to broadcast_to_uids
Payloads == {"m1"}
\* the instants the clock takes: seconds since the epoch
Instants == {0, 1, PING_TIMEOUT_SECS, PING_TIMEOUT_SECS + 1}
\* the instants the clock takes while tasks interleave: one past the timeout
LateInstants == {PING_TIMEOUT_SECS + 1}
\* the max_age_secs arguments tried for prune_stale
MaxAges == {1, PING_TIMEOUT_SECS}
\* the uid lists handed to broadcast_to_uids: empty, one uid, two uids
\* (a uid may occur twice)
UidLists == {<<>>} \cup {<<u>> : u \in Uids} \cup {<<u, v>> : u, v \in Uids}

VARIABLES
    inner,          \* ConnectionRegistry.inner: uid -> Vec of conn ids
    NEXT_CONN_ID,   \* the process-wide counter
    last_ping_at,   \* ConnectionEntry.last_ping_at, per conn id
    chan,           \* the mpsc channel of each connection: pending payloads
    rx,             \* the receiver of each channel: "none", "open", "dropped"
    now,            \* the wall clock, seconds
    sock,           \* the socket task of each connection
    sweep,          \* the background prune task of main
    bcast,          \* a broadcast_to_uids call in progress
    messages,       \* the messages table: id -> row
    group_membership, \* the group_membership table: (chat_id, uid) pairs
    id_gen,         \* the id generator: the next message id
    reqs,           \* the message requests: one handler run per slot
    chat_walk,      \* a client walking GET /chats page by page
    msg_walk        \* a client walking GET /chats/:chat_id/messages page by page

regVars == <<inner, NEXT_CONN_ID, last_ping_at, chan, rx>>
dbVars == <<messages, group_membership, id_gen, reqs>>
listVars == <<chat_walk, msg_walk>>
vars == <<inner, NEXT_CONN_ID, last_ping_at, chan, rx, now, sock, sweep, bcast,
          messages, group_membership, id_gen, reqs, chat_walk, msg_walk>>

(***************************************************************************)
(* Helpers.                                                                *)
(***************************************************************************)
SeqToSet(s) == {s[i] : i \in 1..Len(s)}

\* the number of occurrences of x in the sequence s
Occurrences(s, x) == Cardinality({i \in 1..Len(s) : s[i] = x})

\* a set of integers as an ascending sequence
RECURSIVE SetToSeq(_)
SetToSeq(S) ==
    IF S = {} THEN <<>>
    ELSE LET m == CHOOSE x \in S : \A y \in S : x <= y
         IN <<m>> \o SetToSeq(S \ {m})

\* f without the key k
RemoveKey(f, k) == [x \in (DOMAIN f) \ {k} |-> f[x]]

\* u64::saturating_sub
saturating_sub(a, b) == IF a > b THEN a - b ELSE 0

\* the connections registered for uid; none when the map has no entry
ConnsOf(reg, uid) == IF uid \in DOMAIN reg THEN SeqToSet(reg[uid]) ELSE {}

\* every connection id held by the registry
Registered(reg) == UNION {SeqToSet(reg[u]) : u \in DOMAIN reg}

(***************************************************************************)
(* ConnectionRegistry::register                                            *)
(***************************************************************************)
\* self.inner.entry(uid).or_default().push(entry)
PushEntry(reg, uid, conn_id) ==
    IF uid \in DOMAIN reg
    THEN [reg EXCEPT ![uid] = Append(@, conn_id)]
    ELSE reg @@ (uid :> <<conn_id>>)

\* a register that hands out the lowest id no connection holds
register_lowest_free(uid) ==
    /\ NEXT_CONN_ID < MaxConn
    /\ LET conn_id == CHOOSE c \in ConnIds :
                         /\ c \notin Registered(inner)
                         /\ \A d \in 0..(c - 1) : d \in Registered(inner)
       IN /\ NEXT_CONN_ID' = NEXT_CONN_ID + 1
          /\ chan' = [chan EXCEPT ![conn_id] = <<>>]
          /\ rx' = [rx EXCEPT ![conn_id] = "open"]
          /\ last_ping_at' = [last_ping_at EXCEPT ![conn_id] = now]
          /\ inner' = PushEntry(inner, uid, conn_id)

\* next_conn_id() is NEXT_CONN_ID.fetch_add(1); the entry is pushed under it
register(uid) ==
    /\ NEXT_CONN_ID < MaxConn
    /\ LET conn_id == NEXT_CONN_ID
       IN /\ NEXT_CONN_ID' = NEXT_CONN_ID + 1
          /\ chan' = [chan EXCEPT ![conn_id] = <<>>]
          /\ rx' = [rx EXCEPT ![conn_id] = "open"]
          /\ last_ping_at' = [last_ping_at EXCEPT ![conn_id] = now]
          /\ inner' = PushEntry(inner, uid, conn_id)

(***************************************************************************)
(* ConnectionRegistry::remove_connection                                   *)
(***************************************************************************)
\* vec.retain(|e| e.conn_id != conn_id), under the entry's lock
RetainOther(reg, uid, conn_id) ==
    IF uid \in DOMAIN reg
    THEN [reg EXCEPT ![uid] = SelectSeq(@, LAMBDA e : e # conn_id)]
    ELSE reg

\* empty = vec.is_empty(), read under the same lock; false without an entry
EmptyAfterRetain(reg, uid, conn_id) ==
    /\ uid \in DOMAIN reg
    /\ RetainOther(reg, uid, conn_id)[uid] = <<>>

\* self.inner.remove(&uid)
RemoveUid(reg, uid) == IF uid \in DOMAIN reg THEN RemoveKey(reg, uid) ELSE reg

\* the whole call, run with no other task in between
remove_connection(reg, uid, conn_id) ==
    IF EmptyAfterRetain(reg, uid, conn_id)
    THEN RemoveUid(RetainOther(reg, uid, conn_id), uid)
    ELSE RetainOther(reg, uid, conn_id)

(***************************************************************************)
(* ConnectionRegistry::broadcast_to_uids                                   *)
(***************************************************************************)
\* a send that takes the payload whatever the channel holds
try_send_unbounded(ch, r, conn_id, message) ==
    IF r[conn_id] = "open"
    THEN [ch EXCEPT ![conn_id] = Append(@, message)]
    ELSE ch

\* entry.tx.try_send(message): refused when the channel is full or its
\* receiver is gone, and then nothing else happens
try_send(ch, r, conn_id, message) ==
    IF r[conn_id] = "open" /\ Len(ch[conn_id]) < ChannelCap
    THEN [ch EXCEPT ![conn_id] = Append(@, message)]
    ELSE ch

\* mutant of SendToVec: the loop ends at the first refused send
RECURSIVE SendToVecBreak(_, _, _, _)
SendToVecBreak(ch, r, vec, message) ==
    IF vec = <<>> THEN ch
    ELSE IF try_send(ch, r, Head(vec), message) = ch THEN ch
    ELSE SendToVecBreak(try_send(ch, r, Head(vec), message), r, Tail(vec), message)

\* for entry in vec.iter() { try_send }
RECURSIVE SendToVec(_, _, _, _)
SendToVec(ch, r, vec, message) ==
    IF vec = <<>> THEN ch
    ELSE SendToVec(try_send(ch, r, Head(vec), message), r, Tail(vec), message)

\* a loop body that keeps the payload of a uid without an entry for the
\* connection that registers next
BroadcastUidQueued(ch, r, reg, uid, message) ==
    IF uid \in DOMAIN reg THEN SendToVec(ch, r, reg[uid], message)
    ELSE IF NEXT_CONN_ID < MaxConn
         THEN [ch EXCEPT ![NEXT_CONN_ID] = Append(@, message)]
         ELSE ch

\* the body of the loop over uids, for one uid
BroadcastUid(ch, r, reg, uid, message) ==
    IF uid \in DOMAIN reg THEN SendToVec(ch, r, reg[uid], message) ELSE ch

\* the whole call, run with no other task in between
RECURSIVE broadcast_to_uids(_, _, _, _, _)
broadcast_to_uids(ch, r, reg, uids, message) ==
    IF uids = <<>> THEN ch
    ELSE broadcast_to_uids(BroadcastUid(ch, r, reg, Head(uids), message),
                           r, reg, Tail(uids), message)

(***************************************************************************)
(* ConnectionRegistry::prune_stale                                         *)
(***************************************************************************)
\* mutant of IsStale: an age of exactly max_age_secs counts as stale
IsStaleAtMaxAge(lp, t, max_age_secs, conn_id) ==
    saturating_sub(t, lp[conn_id]) >= max_age_secs

\* the filter of the scan: now - last_ping_at > max_age_secs
IsStale(lp, t, max_age_secs, conn_id) ==
    saturating_sub(t, lp[conn_id]) > max_age_secs

\* a filter that stops at the first stale entry of the vec
StaleOfFirstOnly(reg, lp, t, max_age_secs, uid) ==
    LET stale == {c \in SeqToSet(reg[uid]) : IsStale(lp, t, max_age_secs, c)}
    IN {c \in stale : \A d \in stale : c <= d}

\* the stale conn ids of one entry
StaleOf(reg, lp, t, max_age_secs, uid) ==
    {c \in SeqToSet(reg[uid]) : IsStale(lp, t, max_age_secs, c)}

\* vec.retain(|e| !conn_ids.contains(&e.conn_id)), under the entry's lock
RetainNotIn(reg, uid, conn_ids) ==
    IF uid \in DOMAIN reg
    THEN [reg EXCEPT ![uid] = SelectSeq(@, LAMBDA e : e \notin conn_ids)]
    ELSE reg

\* one iteration of the second loop, run with no other task in between
TrimUid(reg, uid, conn_ids) ==
    LET trimmed == RetainNotIn(reg, uid, conn_ids)
    IN IF uid \in DOMAIN reg /\ trimmed[uid] = <<>>
       THEN RemoveUid(trimmed, uid)
       ELSE trimmed

\* the first loop: the (uid, stale ids) pairs with a stale connection
UidsToTrim(reg, lp, t, max_age_secs) ==
    LET us == SetToSeq({u \in DOMAIN reg : StaleOf(reg, lp, t, max_age_secs, u) # {}})
    IN [i \in 1..Len(us) |-> <<us[i], StaleOf(reg, lp, t, max_age_secs, us[i])>>]

RECURSIVE TrimAll(_, _)
TrimAll(reg, uids_to_trim) ==
    IF uids_to_trim = <<>> THEN reg
    ELSE TrimAll(TrimUid(reg, Head(uids_to_trim)[1], Head(uids_to_trim)[2]),
                 Tail(uids_to_trim))

\* the whole call, run with no other task in between
prune_stale(reg, lp, t, max_age_secs) ==
    TrimAll(reg, UidsToTrim(reg, lp, t, max_age_secs))

(***************************************************************************)
(* The database as the message handlers see it (handlers/messages.rs).     *)
(***************************************************************************)
\* Option::None of an id or a timestamp
NULL == -1
\* the chats of the model
Chats == {1, 2, 3}
\* the bodies sent by clients; " " is empty after trimming
Bodies == {"b", " "}
\* the generator hands out message ids up to MaxMsg
MaxMsg == 5
MsgIds == 1..MaxMsg
\* the message requests of a run
Slots == {1, 2}
\* the instants Utc::now() takes while message requests run
MsgInstants == {1}

\* a NewMessage whose updated_at is set at creation
NewMessageStamped(id, body, reply_to_id, uid, chat_id, t) ==
    [id |-> id, message |-> body, reply_to_id |-> reply_to_id,
     client_generated_id |-> "k", sender_uid |-> uid, chat_id |-> chat_id,
     created_at |-> t, updated_at |-> t, deleted_at |-> NULL,
     has_attachments |-> FALSE]

\* NewMessage as post_message fills it
NewMessage(id, body, reply_to_id, uid, chat_id, t) ==
    [id |-> id, message |-> body, reply_to_id |-> reply_to_id,
     client_generated_id |-> "k", sender_uid |-> uid, chat_id |-> chat_id,
     created_at |-> t, updated_at |-> NULL, deleted_at |-> NULL,
     has_attachments |-> FALSE]

\* ReplyToMessage built from the replied-to row
ReplyToMessage(row) ==
    [id |-> row.id, message |-> row.message, sender_uid |-> row.sender_uid,
     deleted_at |-> row.deleted_at]

\* MessageResponse: the row and its reply preview (<<>> is None)
MessageResponse(row, reply_to_message) ==
    [row |-> row, reply_to_message |-> reply_to_message]

\* the envelope handed to broadcast_to_uids
WsEvent(type, response) == [type |-> type, payload |-> response]

\* the event type each handler broadcasts
EventType(op) ==
    CASE op = "post" -> "message"
      [] op = "patch" -> "message_updated"
      [] op = "delete" -> "message_deleted"

\* check_membership that counts the caller's rows of any chat
check_membership_any_chat(gm, chat_id, uid) == \E c \in Chats : <<c, uid>> \in gm

\* check_membership: count of (chat_id, uid) rows is not 0
check_membership(gm, chat_id, uid) == <<chat_id, uid>> \in gm

\* the uids of every chat loaded for the broadcast
member_uids_all_chats(gm, chat_id) == SetToSeq({u \in Uids : \E c \in Chats : <<c, u>> \in gm})

\* the member uids loaded for the broadcast
member_uids(gm, chat_id) == SetToSeq({u \in Uids : <<chat_id, u>> \in gm})

\* messages.filter(id.eq(message_id).and(chat_id.eq(chat_id))).first(): <<>>
\* when no row matches
FindMessage(msgs, chat_id, message_id) ==
    IF message_id \in DOMAIN msgs /\ msgs[message_id].chat_id = chat_id
    THEN <<msgs[message_id]>>
    ELSE <<>>

\* the characters of the bodies of the model (a body is a Rust String)
Chars(body) ==
    CASE body = "" -> <<>>
      [] body = " " -> <<" ">>
      [] body = "  " -> <<" ", " ">>
      [] body = " b " -> <<" ", "b", " ">>
      [] OTHER -> <<body>>

\* char::is_whitespace, for the characters of the model
is_whitespace(ch) == ch \in {" ", "\t", "\n"}

\* str::trim_start and str::trim_end
RECURSIVE trim_start(_)
trim_start(s) ==
    IF s # <<>> /\ is_whitespace(Head(s)) THEN trim_start(Tail(s)) ELSE s

RECURSIVE trim_end(_)
trim_end(s) ==
    IF s # <<>> /\ is_whitespace(s[Len(s)]) THEN trim_end(SubSeq(s, 1, Len(s) - 1)) ELSE s

\* str::trim
trim(s) == trim_end(trim_start(s))

\* the check without the trim: body.message.is_empty()
IsEmptyUntrimmed(body) == Chars(body) = <<>>

\* body.message.trim().is_empty()
TrimIsEmpty(body) == trim(Chars(body)) = <<>>

\* patch_message without its look at deleted_at
PatchChecksNoDeleted(found, uid, body) ==
    IF found = <<>> THEN "NotFound"
    ELSE IF found[1].sender_uid # uid THEN "Forbidden"
    ELSE IF TrimIsEmpty(body) THEN "InvalidInput"
    ELSE "ok"

\* the checks of patch_message on the row it read, in the code's order
PatchChecks(found, uid, body) ==
    IF found = <<>> THEN "NotFound"
    ELSE IF found[1].sender_uid # uid THEN "Forbidden"
    ELSE IF found[1].deleted_at # NULL THEN "InvalidState"
    ELSE IF TrimIsEmpty(body) THEN "InvalidInput"
    ELSE "ok"

\* delete_message without its look at sender_uid
DeleteChecksAnySender(found, uid) ==
    IF found = <<>> THEN "NotFound"
    ELSE IF found[1].deleted_at # NULL THEN "AlreadyDeleted"
    ELSE "ok"

\* the checks of delete_message on the row it read, in the code's order
DeleteChecks(found, uid) ==
    IF found = <<>> THEN "NotFound"
    ELSE IF found[1].sender_uid # uid THEN "Forbidden"
    ELSE IF found[1].deleted_at # NULL THEN "AlreadyDeleted"
    ELSE "ok"

\* the UPDATE of patch_message that stamps updated_at on the first edit only
UpdateBodyStampOnce(msgs, message_id, body, t) ==
    IF message_id \in DOMAIN msgs
    THEN [msgs EXCEPT ![message_id].message = body,
                      ![message_id].updated_at = IF @ = NULL THEN t ELSE @]
    ELSE msgs

\* update(messages.filter(id.eq(message_id))).set((message, updated_at))
UpdateBody(msgs, message_id, body, t) ==
    IF message_id \in DOMAIN msgs
    THEN [msgs EXCEPT ![message_id].message = body, ![message_id].updated_at = t]
    ELSE msgs

\* a delete that removes the row: diesel::delete(messages.filter(id.eq(..)))
DeleteRow(msgs, message_id, t) ==
    [i \in DOMAIN msgs \ {message_id} |-> msgs[i]]

\* update(messages.filter(id.eq(message_id))).set(deleted_at.eq(Some(now)))
SetDeleted(msgs, message_id, t) ==
    IF message_id \in DOMAIN msgs
    THEN [msgs EXCEPT ![message_id].deleted_at = t]
    ELSE msgs

\* a request slot no handler runs in
IdleReq ==
    [op |-> "idle", pc |-> "idle", uid |-> 0, chat_id |-> 0, message_id |-> 0,
     body |-> "", reply_to_id |-> NULL, wrote |-> FALSE, response |-> <<>>,
     sent |-> <<>>, result |-> "none", at |-> "none", now |-> NULL,
     target_uid |-> 0, role |-> <<>>]

\* the handler swallows the Err of the statement it is at and answers Ok
FailAnswersOk(req, kind) == [req EXCEPT !.pc = "done", !.result = "Ok", !.at = req.pc]

\* the handler returns Err from the statement it is at: nothing more is done
Fail(req, kind) == [req EXCEPT !.pc = "done", !.result = kind, !.at = req.pc]

\* a write statement returned Err, and the handler goes on as if it had not
OnWriteErrorIgnored(req) ==
    IF req.op = "post" THEN Fail(req, "Storage") ELSE [req EXCEPT !.pc = "reread"]

\* what a handler does when its write statement returns Err: map_err(..)?
OnWriteError(req) == Fail(req, "Storage")

\* the seeded database: chat 1 with members 1 and 2, chat 2 with member 2,
\* one message of uid 1 in chat 1
DbSeed ==
    /\ messages = (1 :> NewMessage(1, "a", NULL, 1, 1, 0))
    /\ group_membership = {<<1, 1>>, <<1, 2>>, <<2, 2>>}
    /\ id_gen = 2
    /\ reqs = [r \in Slots |-> IdleReq]

\* no client walks a listing
WalkIdle ==
    [pc |-> "idle", limit |-> <<>>, effective |-> NULL, cursor |-> NULL, cursor_at |-> NULL,
     pages |-> <<>>, stamps |-> <<>>, next_cursor |-> NULL, initial |-> {}]

NoWalk ==
    /\ chat_walk = WalkIdle
    /\ msg_walk = WalkIdle

(***************************************************************************)
(* Initial state: ConnectionRegistry::new(), NEXT_CONN_ID = 0.             *)
(***************************************************************************)
SweepIdle == [pc |-> "idle", t |-> 0, todo |-> {}, uids_to_trim |-> <<>>]
BcastIdle == [pc |-> "idle", uids |-> <<>>, message |-> "none"]
\* no socket task; inbox holds the frames the client has sent and
\* socket.recv() has not returned yet
NoSock == [pc |-> "none", uid |-> 0, reply |-> <<>>, inbox |-> <<>>]

RegInit ==
    /\ inner = <<>>
    /\ NEXT_CONN_ID = 0
    /\ last_ping_at = [c \in ConnIds |-> 0]
    /\ chan = [c \in ConnIds |-> <<>>]
    /\ rx = [c \in ConnIds |-> "none"]
    /\ now = 0
    /\ sock = [c \in ConnIds |-> NoSock]
    /\ sweep = SweepIdle
    /\ bcast = BcastIdle
    /\ DbSeed
    /\ NoWalk

\* the clock moves to the later instant t
Tick(t) ==
    /\ t > now
    /\ now' = t
    /\ UNCHANGED <<regVars, sock, sweep, bcast, dbVars, listVars>>

(***************************************************************************)
(* The registry's calls, one at a time (SpecSend, SpecPrune).              *)
(***************************************************************************)
Register(uid) ==
    /\ register(uid)
    /\ UNCHANGED <<now, sock, sweep, bcast, dbVars, listVars>>

RemoveConnection(uid, conn_id) ==
    /\ inner' = remove_connection(inner, uid, conn_id)
    /\ UNCHANGED <<NEXT_CONN_ID, last_ping_at, chan, rx, now, sock, sweep, bcast, dbVars, listVars>>

BroadcastToUids(uids, message) ==
    /\ chan' = broadcast_to_uids(chan, rx, inner, uids, message)
    /\ UNCHANGED <<inner, NEXT_CONN_ID, last_ping_at, rx, now, sock, sweep, bcast, dbVars, listVars>>

PruneStale(max_age_secs) ==
    /\ inner' = prune_stale(inner, last_ping_at, now, max_age_secs)
    /\ UNCHANGED <<NEXT_CONN_ID, last_ping_at, chan, rx, now, sock, sweep, bcast, dbVars, listVars>>

\* entry.last_ping_at.store(now_secs()) by the holder of the entry
RecordPing(conn_id) ==
    /\ rx[conn_id] = "open"
    /\ last_ping_at' = [last_ping_at EXCEPT ![conn_id] = now]
    /\ UNCHANGED <<inner, NEXT_CONN_ID, chan, rx, now, sock, sweep, bcast, dbVars, listVars>>

\* rx.recv() by the holder of the receiver takes the oldest payload
Recv(conn_id) ==
    /\ rx[conn_id] = "open"
    /\ chan[conn_id] # <<>>
    /\ chan' = [chan EXCEPT ![conn_id] = Tail(@)]
    /\ UNCHANGED <<inner, NEXT_CONN_ID, last_ping_at, rx, now, sock, sweep, bcast, dbVars, listVars>>

\* the holder of the receiver drops it: the channel closes and what it still
\* held is gone
DropReceiver(conn_id) ==
    /\ rx[conn_id] = "open"
    /\ rx' = [rx EXCEPT ![conn_id] = "dropped"]
    /\ chan' = [chan EXCEPT ![conn_id] = <<>>]
    /\ UNCHANGED <<inner, NEXT_CONN_ID, last_ping_at, now, sock, sweep, bcast, dbVars, listVars>>

\* the calls that touch the channels: registration, removal, fan-out, and the
\* receiving ends
NextSend ==
    \/ \E uid \in Uids : Register(uid)
    \/ \E uid \in Uids, conn_id \in ConnIds : RemoveConnection(uid, conn_id)
    \/ \E uids \in UidLists, message \in Payloads : BroadcastToUids(uids, message)
    \/ \E conn_id \in ConnIds : Recv(conn_id)
    \/ \E conn_id \in ConnIds : DropReceiver(conn_id)

SpecSend == RegInit /\ [][NextSend]_vars

\* the calls that touch the staleness clock: registration, removal, pings,
\* the passing of time and the sweep
NextPrune ==
    \/ \E t \in Instants : Tick(t)
    \/ \E uid \in Uids : Register(uid)
    \/ \E uid \in Uids, conn_id \in ConnIds : RemoveConnection(uid, conn_id)
    \/ \E conn_id \in ConnIds : RecordPing(conn_id)
    \/ \E max_age_secs \in MaxAges : PruneStale(max_age_secs)

SpecPrune == RegInit /\ [][NextPrune]_vars

(***************************************************************************)
(* The tasks that share the registry (SpecReg): one socket task per        *)
(* connection, the prune task of main, and a caller of broadcast_to_uids.  *)
(* A step is what a task does while it holds an entry's lock, or between   *)
(* two awaits.                                                             *)
(***************************************************************************)
\* ws_handler: register, then hand the socket loop to on_upgrade
WsHandler(uid) ==
    /\ register(uid)
    /\ sock' = [sock EXCEPT ![NEXT_CONN_ID] = [NoSock EXCEPT !.pc = "upgrade", !.uid = uid]]
    /\ UNCHANGED <<now, sweep, bcast, dbVars, listVars>>

\* the upgrade completes and handle_socket starts
UpgradeDone(conn_id) ==
    /\ sock[conn_id].pc = "upgrade"
    /\ sock' = [sock EXCEPT ![conn_id].pc = "loop"]
    /\ UNCHANGED <<regVars, now, sweep, bcast, dbVars, listVars>>

\* the upgrade never completes: the callback is dropped with the receiver it
\* owns, and handle_socket never runs
UpgradeDropped(conn_id) ==
    /\ sock[conn_id].pc = "upgrade"
    /\ sock' = [sock EXCEPT ![conn_id].pc = "aborted"]
    /\ rx' = [rx EXCEPT ![conn_id] = "dropped"]
    /\ chan' = [chan EXCEPT ![conn_id] = <<>>]
    /\ UNCHANGED <<inner, NEXT_CONN_ID, last_ping_at, now, sweep, bcast, dbVars, listVars>>

\* a select! with `biased;` and socket.recv() first: rx.recv() is polled
\* only when no frame is waiting
SockForwardBiased(conn_id, sent) ==
    /\ sock[conn_id].pc = "loop"
    /\ sock[conn_id].inbox = <<>>
    /\ chan[conn_id] # <<>>
    /\ chan' = [chan EXCEPT ![conn_id] = Tail(@)]
    /\ sock' = [sock EXCEPT ![conn_id].pc = IF sent THEN "loop" ELSE "remove"]
    /\ UNCHANGED <<inner, NEXT_CONN_ID, last_ping_at, rx, now, sweep, bcast, dbVars, listVars>>

\* the rx.recv() branch: forward one payload; a failed socket.send breaks
SockForward(conn_id, sent) ==
    /\ sock[conn_id].pc = "loop"
    /\ chan[conn_id] # <<>>
    /\ chan' = [chan EXCEPT ![conn_id] = Tail(@)]
    /\ sock' = [sock EXCEPT ![conn_id].pc = IF sent THEN "loop" ELSE "remove"]
    /\ UNCHANGED <<inner, NEXT_CONN_ID, last_ping_at, rx, now, sweep, bcast, dbVars, listVars>>

\* PONG_JSON in handlers/ws.rs
PONG_JSON == "{\"type\":\"pong\"}"

\* the frames a client sends: text frames, given by what their text holds
\* (whether it is a JSON object, and its string fields), and the frames that
\* are not text (Binary, protocol Ping / Pong, Close)
TextFrames ==
    {[kind |-> "Text", json |-> TRUE, fields |-> ("type" :> "ping")],
     [kind |-> "Text", json |-> TRUE, fields |-> ("type" :> "ping") @@ ("seq" :> "1")],
     [kind |-> "Text", json |-> TRUE, fields |-> ("type" :> "pong")],
     [kind |-> "Text", json |-> TRUE, fields |-> ("kind" :> "ping")],
     [kind |-> "Text", json |-> FALSE, fields |-> ("type" :> "ping")]}
OtherFrames ==
    {[kind |-> k, json |-> FALSE, fields |-> ("type" :> "ping")] :
        k \in {"Binary", "Ping", "Pong", "Close"}}
ClientFrames == TextFrames \cup OtherFrames
PingFrame == [kind |-> "Text", json |-> TRUE, fields |-> ("type" :> "ping")]

\* a parser that takes any field holding "ping" for the type
from_str_any_field(frame) ==
    IF frame.json /\ \E k \in DOMAIN frame.fields : frame.fields[k] = "ping"
    THEN <<[type_ |-> "ping"]>>
    ELSE IF frame.json /\ "type" \in DOMAIN frame.fields
         THEN <<[type_ |-> frame.fields["type"]]>>
         ELSE <<>>

\* serde_json::from_str::<WsMessage>(&text): Ok when the text is a JSON
\* object with a string field "type" (other fields are ignored)
from_str(frame) ==
    IF frame.json /\ "type" \in DOMAIN frame.fields
    THEN <<[type_ |-> frame.fields["type"]]>>
    ELSE <<>>

\* Some(Ok(Message::Text(text))) with a parsed type_ == "ping"
IsPing(frame) ==
    /\ frame.kind = "Text"
    /\ from_str(frame) # <<>>
    /\ from_str(frame)[1].type_ = "ping"

\* the socket.recv() branch, Some(Ok(frame)): a ping stores last_ping_at and
\* is answered with PONG_JSON, and a failed socket.send breaks; any other
\* frame is passed over. reply is what the task wrote for this frame.
SockRecvFrame(conn_id, frame, sent) ==
    /\ sock[conn_id].pc = "loop"
    /\ IF IsPing(frame)
       THEN /\ last_ping_at' = [last_ping_at EXCEPT ![conn_id] = now]
            /\ sock' = [sock EXCEPT ![conn_id].pc = IF sent THEN "loop" ELSE "remove",
                                    ![conn_id].reply = <<PONG_JSON>>]
       ELSE /\ last_ping_at' = last_ping_at
            /\ sock' = [sock EXCEPT ![conn_id].reply = <<>>]
    /\ UNCHANGED <<inner, NEXT_CONN_ID, chan, rx, now, sweep, bcast, dbVars, listVars>>

\* the socket.recv() branch, a ping: store last_ping_at, answer pong; a failed
\* socket.send breaks
SockPing(conn_id, sent) == SockRecvFrame(conn_id, PingFrame, sent)

\* the client writes a frame to an open socket on which none is waiting
ClientSend(conn_id, frame) ==
    /\ sock[conn_id].pc = "loop"
    /\ sock[conn_id].inbox = <<>>
    /\ sock' = [sock EXCEPT ![conn_id].inbox = Append(@, frame)]
    /\ UNCHANGED <<regVars, now, sweep, bcast, dbVars, listVars>>

\* the socket.recv() branch returns the frame that waited longest
SockRecvQueued(conn_id, sent) ==
    /\ sock[conn_id].pc = "loop"
    /\ sock[conn_id].inbox # <<>>
    /\ LET frame == Head(sock[conn_id].inbox)
       IN IF IsPing(frame)
          THEN /\ last_ping_at' = [last_ping_at EXCEPT ![conn_id] = now]
               /\ sock' = [sock EXCEPT ![conn_id].pc = IF sent THEN "loop" ELSE "remove",
                                       ![conn_id].reply = <<PONG_JSON>>,
                                       ![conn_id].inbox = Tail(@)]
          ELSE /\ last_ping_at' = last_ping_at
               /\ sock' = [sock EXCEPT ![conn_id].reply = <<>>,
                                       ![conn_id].inbox = Tail(@)]
    /\ UNCHANGED <<inner, NEXT_CONN_ID, chan, rx, now, sweep, bcast, dbVars, listVars>>

\* the socket.recv() branch, Some(Err(_)) | None: break
SockClose(conn_id) ==
    /\ sock[conn_id].pc = "loop"
    /\ sock' = [sock EXCEPT ![conn_id].pc = "remove"]
    /\ UNCHANGED <<regVars, now, sweep, bcast, dbVars, listVars>>

\* remove_connection, first half: get_mut, retain, is_empty, unlock. Without
\* an emptied entry the call returns, handle_socket ends and drops rx.
SockRemoveRetain(conn_id) ==
    /\ sock[conn_id].pc = "remove"
    /\ inner' = RetainOther(inner, sock[conn_id].uid, conn_id)
    /\ IF EmptyAfterRetain(inner, sock[conn_id].uid, conn_id)
       THEN /\ sock' = [sock EXCEPT ![conn_id].pc = "remove_key"]
            /\ UNCHANGED <<rx, chan>>
       ELSE /\ sock' = [sock EXCEPT ![conn_id].pc = "done"]
            /\ rx' = [rx EXCEPT ![conn_id] = "dropped"]
            /\ chan' = [chan EXCEPT ![conn_id] = <<>>]
    /\ UNCHANGED <<NEXT_CONN_ID, last_ping_at, now, sweep, bcast, dbVars, listVars>>

\* remove_connection, second half: if empty { self.inner.remove(&uid) }
SockRemoveKey(conn_id) ==
    /\ sock[conn_id].pc = "remove_key"
    /\ inner' = RemoveUid(inner, sock[conn_id].uid)
    /\ sock' = [sock EXCEPT ![conn_id].pc = "done"]
    /\ rx' = [rx EXCEPT ![conn_id] = "dropped"]
    /\ chan' = [chan EXCEPT ![conn_id] = <<>>]
    /\ UNCHANGED <<NEXT_CONN_ID, last_ping_at, now, sweep, bcast, dbVars, listVars>>

\* main's task: interval.tick() fires and prune_stale(300) reads the clock
SweepStart ==
    /\ sweep.pc = "idle"
    /\ sweep' = [pc |-> IF DOMAIN inner = {} THEN "trim" ELSE "scan",
                 t |-> now, todo |-> DOMAIN inner, uids_to_trim |-> <<>>]
    /\ UNCHANGED <<regVars, now, sock, bcast, dbVars, listVars>>

\* the first loop visits one entry (an entry removed meanwhile is not seen)
SweepScan(uid) ==
    /\ sweep.pc = "scan"
    /\ uid \in sweep.todo
    /\ LET stale == IF uid \in DOMAIN inner
                    THEN StaleOf(inner, last_ping_at, sweep.t, PING_TIMEOUT_SECS, uid)
                    ELSE {}
           todo == sweep.todo \ {uid}
       IN sweep' = [sweep EXCEPT
                      !.todo = todo,
                      !.uids_to_trim = IF stale # {} THEN Append(@, <<uid, stale>>) ELSE @,
                      !.pc = IF todo = {} THEN "trim" ELSE "scan"]
    /\ UNCHANGED <<regVars, now, sock, bcast, dbVars, listVars>>

\* the second loop, one (uid, conn_ids): get_mut, retain, is_empty, drop(vec)
SweepTrim ==
    /\ sweep.pc = "trim"
    /\ sweep.uids_to_trim # <<>>
    /\ LET uid == Head(sweep.uids_to_trim)[1]
           conn_ids == Head(sweep.uids_to_trim)[2]
           trimmed == RetainNotIn(inner, uid, conn_ids)
       IN /\ inner' = trimmed
          /\ IF uid \in DOMAIN inner /\ trimmed[uid] = <<>>
             THEN sweep' = [sweep EXCEPT !.pc = "remove_key"]
             ELSE sweep' = [sweep EXCEPT !.uids_to_trim = Tail(@)]
    /\ UNCHANGED <<NEXT_CONN_ID, last_ping_at, chan, rx, now, sock, bcast, dbVars, listVars>>

\* the second loop: self.inner.remove(&uid), after the lock was dropped
SweepRemoveKey ==
    /\ sweep.pc = "remove_key"
    /\ inner' = RemoveUid(inner, Head(sweep.uids_to_trim)[1])
    /\ sweep' = [sweep EXCEPT !.pc = "trim", !.uids_to_trim = Tail(@)]
    /\ UNCHANGED <<NEXT_CONN_ID, last_ping_at, chan, rx, now, sock, bcast, dbVars, listVars>>

\* prune_stale returns
SweepEnd ==
    /\ sweep.pc = "trim"
    /\ sweep.uids_to_trim = <<>>
    /\ sweep' = SweepIdle
    /\ UNCHANGED <<regVars, now, sock, bcast, dbVars, listVars>>

\* a handler calls broadcast_to_uids(uids, message), uids not empty
BcastStart(uids, message) ==
    /\ bcast.pc = "idle"
    /\ uids # <<>>
    /\ bcast' = [pc |-> "loop", uids |-> uids, message |-> message]
    /\ UNCHANGED <<regVars, now, sock, sweep, dbVars, listVars>>

\* one turn of its loop over uids, under that entry's lock; the call returns
\* after the last one
BcastStep ==
    /\ bcast.pc = "loop"
    /\ chan' = BroadcastUid(chan, rx, inner, Head(bcast.uids), bcast.message)
    /\ bcast' = IF Tail(bcast.uids) = <<>> THEN BcastIdle
                ELSE [bcast EXCEPT !.uids = Tail(@)]
    /\ UNCHANGED <<inner, NEXT_CONN_ID, last_ping_at, rx, now, sock, sweep, dbVars, listVars>>

NextReg ==
    \/ \E t \in LateInstants : Tick(t)
    \/ \E uid \in Uids : WsHandler(uid)
    \/ \E conn_id \in ConnIds : UpgradeDone(conn_id)
    \/ \E conn_id \in ConnIds : UpgradeDropped(conn_id)
    \/ \E conn_id \in ConnIds, sent \in BOOLEAN : SockForward(conn_id, sent)
    \/ \E conn_id \in ConnIds, sent \in BOOLEAN : SockPing(conn_id, sent)
    \/ \E conn_id \in ConnIds : SockClose(conn_id)
    \/ \E conn_id \in ConnIds : SockRemoveRetain(conn_id)
    \/ \E conn_id \in ConnIds : SockRemoveKey(conn_id)
    \/ SweepStart
    \/ \E uid \in Uids : SweepScan(uid)
    \/ SweepTrim
    \/ SweepRemoveKey
    \/ SweepEnd
    \/ \E uid \in Uids, message \in Payloads : BcastStart(<<uid>>, message)
    \/ BcastStep

SpecReg == RegInit /\ [][NextReg]_vars

(***************************************************************************)
(* The prune task of main against sockets that never report a close        *)
(* (SpecSweep): connections register and ping, the clock moves on, and the *)
(* interval loop of main keeps calling prune_stale(300).  The loop is a    *)
(* task of its own that the runtime keeps scheduling, and the clock keeps  *)
(* moving: both are weakly fair.  The socket tasks are not.                *)
(***************************************************************************)
\* the instants of the clock: a ping at 0 or 1 is more than 300 seconds old
\* at 302
SweepInstants == {1, PING_TIMEOUT_SECS + 2}

NextSweep ==
    \/ \E t \in SweepInstants : Tick(t)
    \/ \E uid \in Uids : WsHandler(uid)
    \/ \E conn_id \in ConnIds : UpgradeDone(conn_id)
    \/ \E conn_id \in ConnIds : SockPing(conn_id, TRUE)
    \/ SweepStart
    \/ \E uid \in Uids : SweepScan(uid)
    \/ SweepTrim
    \/ SweepRemoveKey
    \/ SweepEnd

SpecSweep ==
    /\ RegInit
    /\ [][NextSweep]_vars
    /\ WF_vars(\E t \in SweepInstants : Tick(t))
    /\ WF_vars(SweepStart)
    /\ WF_vars(\E uid \in Uids : SweepScan(uid))
    /\ WF_vars(SweepTrim)
    /\ WF_vars(SweepRemoveKey)
    /\ WF_vars(SweepEnd)

(***************************************************************************)
(* The keepalive of the socket tasks (SpecPing): connections register, the *)
(* clock moves, and clients send frames of every kind.                     *)
(***************************************************************************)
PingInstants == {1, 2}

NextPing ==
    \/ \E t \in PingInstants : Tick(t)
    \/ \E uid \in Uids : WsHandler(uid)
    \/ \E conn_id \in ConnIds : UpgradeDone(conn_id)
    \/ \E conn_id \in ConnIds, frame \in ClientFrames, sent \in BOOLEAN :
          SockRecvFrame(conn_id, frame, sent)

SpecPing == RegInit /\ [][NextPing]_vars

(***************************************************************************)
(* The select! loop of a socket task (SpecSelect): handlers broadcast to   *)
(* the connections of uid 1 while its clients send frames, the sockets     *)
(* stay open and every socket.send completes.  select! without `biased;`   *)
(* polls its branches in a random order, so a branch that stays ready is   *)
(* taken: both branches of each task are weakly fair.  Clients and         *)
(* handlers are not.                                                       *)
(***************************************************************************)
\* the frames the clients send: a ping and a text frame that is none
SelectFrames ==
    {PingFrame, [kind |-> "Text", json |-> TRUE, fields |-> ("type" :> "pong")]}

NextSelect ==
    \/ WsHandler(1)
    \/ \E conn_id \in ConnIds : UpgradeDone(conn_id)
    \/ \E message \in Payloads : BroadcastToUids(<<1>>, message)
    \/ \E conn_id \in ConnIds, frame \in SelectFrames : ClientSend(conn_id, frame)
    \/ \E conn_id \in ConnIds : SockForward(conn_id, TRUE)
    \/ \E conn_id \in ConnIds : SockRecvQueued(conn_id, TRUE)

SpecSelect ==
    /\ RegInit
    /\ [][NextSelect]_vars
    /\ \A conn_id \in ConnIds : WF_vars(SockForward(conn_id, TRUE))
    /\ \A conn_id \in ConnIds : WF_vars(SockRecvQueued(conn_id, TRUE))

(***************************************************************************)
(* The message handlers (SpecMsg): post_message, patch_message and         *)
(* delete_message run as concurrent requests.  Every statement sent to the *)
(* database is a step of its own (the handlers open no transaction), and   *)
(* every statement may fail.                                               *)
(***************************************************************************)
\* the inputs of the requests
MsgChats == {1, 2}
ReplyIds == {NULL, 1}
TargetIds == {1, 2}

\* two connections are registered when the requests start: 0 of uid 1 and
\* 1 of uid 2
MsgInit ==
    /\ inner = (1 :> <<0>>) @@ (2 :> <<1>>)
    /\ NEXT_CONN_ID = 2
    /\ last_ping_at = [c \in ConnIds |-> 0]
    /\ chan = [c \in ConnIds |-> <<>>]
    /\ rx = [c \in ConnIds |-> IF c < 2 THEN "open" ELSE "none"]
    /\ now = 0
    /\ sock = [c \in ConnIds |-> NoSock]
    /\ sweep = SweepIdle
    /\ bcast = BcastIdle
    /\ DbSeed
    /\ NoWalk

\* the variables a database step leaves alone
MsgFrame == <<inner, NEXT_CONN_ID, last_ping_at, rx, now, sock, sweep, bcast, listVars>>

\* slot r is free and the slots before it are taken
FreeSlot(r) ==
    /\ reqs[r].op = "idle"
    /\ \A q \in Slots : q < r => reqs[q].op # "idle"

PostMessage(r, uid, chat_id, body, reply_to_id) ==
    /\ FreeSlot(r)
    /\ reqs' = [reqs EXCEPT ![r] = [IdleReq EXCEPT !.op = "post", !.pc = "membership",
                   !.uid = uid, !.chat_id = chat_id, !.body = body,
                   !.reply_to_id = reply_to_id]]
    /\ UNCHANGED <<messages, group_membership, id_gen, chan, MsgFrame>>

PatchMessage(r, uid, chat_id, message_id, body) ==
    /\ FreeSlot(r)
    /\ reqs' = [reqs EXCEPT ![r] = [IdleReq EXCEPT !.op = "patch", !.pc = "membership",
                   !.uid = uid, !.chat_id = chat_id, !.message_id = message_id,
                   !.body = body]]
    /\ UNCHANGED <<messages, group_membership, id_gen, chan, MsgFrame>>

DeleteMessage(r, uid, chat_id, message_id) ==
    /\ FreeSlot(r)
    /\ reqs' = [reqs EXCEPT ![r] = [IdleReq EXCEPT !.op = "delete", !.pc = "membership",
                   !.uid = uid, !.chat_id = chat_id, !.message_id = message_id]]
    /\ UNCHANGED <<messages, group_membership, id_gen, chan, MsgFrame>>

\* check_membership(conn, chat_id, uid)?
CheckMembership(r, ok) ==
    /\ reqs[r].pc = "membership"
    /\ reqs' = [reqs EXCEPT ![r] =
          IF ~ok THEN Fail(@, "Storage")
          ELSE IF ~check_membership(group_membership, @.chat_id, @.uid) THEN Fail(@, "Forbidden")
          ELSE [@ EXCEPT !.pc = CASE reqs[r].op = "post" -> "idgen"
                                    [] reqs[r].op = "list" -> "page"
                                    [] OTHER -> "read"]]
    /\ UNCHANGED <<messages, group_membership, id_gen, chan, MsgFrame>>

\* ids::next_message_id(..).await: the generator hands out ids in increasing
\* order, each once
NextMessageId(r, ok) ==
    /\ reqs[r].pc = "idgen"
    /\ id_gen <= MaxMsg
    /\ IF ok
       THEN /\ reqs' = [reqs EXCEPT ![r].message_id = id_gen, ![r].pc = "now"]
            /\ id_gen' = id_gen + 1
       ELSE /\ reqs' = [reqs EXCEPT ![r] = Fail(@, "IdGen")]
            /\ id_gen' = id_gen
    /\ UNCHANGED <<messages, group_membership, chan, MsgFrame>>

\* let now = Utc::now(): the instant the handler reads for created_at
UtcNow(r) ==
    /\ reqs[r].pc = "now"
    /\ reqs' = [reqs EXCEPT ![r].now = now, ![r].pc = "insert"]
    /\ UNCHANGED <<messages, group_membership, id_gen, chan, MsgFrame>>

\* insert_into(messages::table).values(&new_msg); the response is built from
\* new_msg, its reply preview is filled by the next statement
InsertMessage(r, ok) ==
    /\ reqs[r].pc = "insert"
    /\ LET req == reqs[r]
           new_msg == NewMessage(req.message_id, req.body, req.reply_to_id,
                                 req.uid, req.chat_id, req.now)
       IN IF ok
          THEN /\ messages' = (req.message_id :> new_msg) @@ messages
               /\ reqs' = [reqs EXCEPT ![r].wrote = TRUE,
                              ![r].response = <<MessageResponse(new_msg, <<>>)>>,
                              ![r].pc = IF req.reply_to_id # NULL THEN "reply" ELSE "members"]
          ELSE /\ messages' = messages
               /\ reqs' = [reqs EXCEPT ![r] = OnWriteError(@)]
    /\ UNCHANGED <<group_membership, id_gen, chan, MsgFrame>>

\* messages.filter(id.eq(reply_id)).first(conn).ok(): an error is no preview
FetchReply(r, ok) ==
    /\ reqs[r].pc = "reply"
    /\ LET req == reqs[r]
           reply_to_message ==
              IF ok /\ req.reply_to_id \in DOMAIN messages
              THEN <<ReplyToMessage(messages[req.reply_to_id])>>
              ELSE <<>>
       IN reqs' = [reqs EXCEPT ![r].response =
                      <<MessageResponse(req.response[1].row, reply_to_message)>>,
                      ![r].pc = "members"]
    /\ UNCHANGED <<messages, group_membership, id_gen, chan, MsgFrame>>

\* the read of patch_message and delete_message and the checks on what it
\* returned; an error of the statement is NOT_FOUND
ReadMessage(r, ok) ==
    /\ reqs[r].pc = "read"
    /\ LET req == reqs[r]
           found == IF ok THEN FindMessage(messages, req.chat_id, req.message_id) ELSE <<>>
           verdict == IF req.op = "patch" THEN PatchChecks(found, req.uid, req.body)
                      ELSE DeleteChecks(found, req.uid)
       IN reqs' = [reqs EXCEPT ![r] =
                      IF verdict = "ok" THEN [@ EXCEPT !.pc = "write"] ELSE Fail(@, verdict)]
    /\ UNCHANGED <<messages, group_membership, id_gen, chan, MsgFrame>>

\* the UPDATE of patch_message (message, updated_at) or of delete_message
\* (deleted_at), filtered by id alone
WriteMessage(r, ok) ==
    /\ reqs[r].pc = "write"
    /\ LET req == reqs[r]
       IN IF ok
          THEN /\ messages' = IF req.op = "patch"
                              THEN UpdateBody(messages, req.message_id, req.body, now)
                              ELSE SetDeleted(messages, req.message_id, now)
               /\ reqs' = [reqs EXCEPT ![r].wrote = TRUE, ![r].pc = "reread"]
          ELSE /\ messages' = messages
               /\ reqs' = [reqs EXCEPT ![r] = OnWriteError(@)]
    /\ UNCHANGED <<group_membership, id_gen, chan, MsgFrame>>

\* a response built from the request's own input instead of a re-read
RereadMessageFromInput(r, ok) ==
    /\ reqs[r].pc = "reread"
    /\ LET req == reqs[r]
           row == IF req.op = "patch"
                  THEN [messages[req.message_id] EXCEPT !.message = req.body]
                  ELSE messages[req.message_id]
       IN reqs' = [reqs EXCEPT ![r] =
                      IF ok /\ req.message_id \in DOMAIN messages
                      THEN [@ EXCEPT !.response = <<MessageResponse(row, <<>>)>>,
                                     !.pc = "members"]
                      ELSE Fail(@, "Storage")]
    /\ UNCHANGED <<messages, group_membership, id_gen, chan, MsgFrame>>

\* the re-read of the row after the UPDATE: messages.filter(id.eq(message_id))
\* .first(conn).map_err(..)?
RereadMessage(r, ok) ==
    /\ reqs[r].pc = "reread"
    /\ LET req == reqs[r]
       IN reqs' = [reqs EXCEPT ![r] =
                      IF ok /\ req.message_id \in DOMAIN messages
                      THEN [@ EXCEPT !.response =
                                 <<MessageResponse(messages[req.message_id], <<>>)>>,
                               !.pc = "members"]
                      ELSE Fail(@, "Storage")]
    /\ UNCHANGED <<messages, group_membership, id_gen, chan, MsgFrame>>

\* the load of the member uids, the broadcast and the handler's Ok
BroadcastAndReturn(r, ok) ==
    /\ reqs[r].pc = "members"
    /\ LET req == reqs[r]
           event == WsEvent(EventType(req.op), req.response[1])
       IN IF ok
          THEN /\ chan' = broadcast_to_uids(chan, rx, inner,
                             member_uids(group_membership, req.chat_id), event)
               /\ reqs' = [reqs EXCEPT ![r].sent = <<event>>, ![r].pc = "done",
                              ![r].result = "Ok"]
          ELSE /\ chan' = chan
               /\ reqs' = [reqs EXCEPT ![r] = Fail(@, "Storage")]
    /\ UNCHANGED <<messages, group_membership, id_gen, MsgFrame>>

NextMsg ==
    \/ \E t \in MsgInstants : Tick(t)
    \/ \E r \in Slots, uid \in Uids, chat_id \in MsgChats, body \in Bodies, reply_to_id \in ReplyIds :
          PostMessage(r, uid, chat_id, body, reply_to_id)
    \/ \E r \in Slots, uid \in Uids, chat_id \in MsgChats, message_id \in TargetIds, body \in Bodies :
          PatchMessage(r, uid, chat_id, message_id, body)
    \/ \E r \in Slots, uid \in Uids, chat_id \in MsgChats, message_id \in TargetIds :
          DeleteMessage(r, uid, chat_id, message_id)
    \/ \E r \in Slots, ok \in BOOLEAN : CheckMembership(r, ok)
    \/ \E r \in Slots, ok \in BOOLEAN : NextMessageId(r, ok)
    \/ \E r \in Slots : UtcNow(r)
    \/ \E r \in Slots, ok \in BOOLEAN : InsertMessage(r, ok)
    \/ \E r \in Slots, ok \in BOOLEAN : FetchReply(r, ok)
    \/ \E r \in Slots, ok \in BOOLEAN : ReadMessage(r, ok)
    \/ \E r \in Slots, ok \in BOOLEAN : WriteMessage(r, ok)
    \/ \E r \in Slots, ok \in BOOLEAN : RereadMessage(r, ok)
    \/ \E r \in Slots, ok \in BOOLEAN : BroadcastAndReturn(r, ok)

SpecMsg == MsgInit /\ [][NextMsg]_vars

(***************************************************************************)
(* The message handlers, one request after the other (SpecMsgSeq): a       *)
(* request starts when no other is under way.                              *)
(***************************************************************************)
\* the requests of a sequential run and their inputs
SeqSlots == {1, 2, 3}
SeqChat == 1
SeqTarget == 1
SeqBodies == {"b", "c"}

\* as MsgInit, with three request slots
MsgSeqInit ==
    /\ inner = (1 :> <<0>>) @@ (2 :> <<1>>)
    /\ NEXT_CONN_ID = 2
    /\ last_ping_at = [c \in ConnIds |-> 0]
    /\ chan = [c \in ConnIds |-> <<>>]
    /\ rx = [c \in ConnIds |-> IF c < 2 THEN "open" ELSE "none"]
    /\ now = 0
    /\ sock = [c \in ConnIds |-> NoSock]
    /\ sweep = SweepIdle
    /\ bcast = BcastIdle
    /\ messages = (1 :> NewMessage(1, "a", NULL, 1, 1, 0))
    /\ group_membership = {<<1, 1>>, <<1, 2>>, <<2, 2>>}
    /\ id_gen = 2
    /\ reqs = [r \in SeqSlots |-> IdleReq]
    /\ NoWalk

\* no handler is under way
Alone == \A r \in DOMAIN reqs : reqs[r].pc \in {"idle", "done"}

NextMsgSeq ==
    \/ \E t \in MsgInstants : Tick(t)
    \/ \E r \in SeqSlots, uid \in Uids :
          Alone /\ PostMessage(r, uid, SeqChat, "b", NULL)
    \/ \E r \in SeqSlots, uid \in Uids, body \in SeqBodies :
          Alone /\ PatchMessage(r, uid, SeqChat, SeqTarget, body)
    \/ \E r \in SeqSlots, uid \in Uids :
          Alone /\ DeleteMessage(r, uid, SeqChat, SeqTarget)
    \/ \E r \in SeqSlots, ok \in BOOLEAN : CheckMembership(r, ok)
    \/ \E r \in SeqSlots, ok \in BOOLEAN : NextMessageId(r, ok)
    \/ \E r \in SeqSlots : UtcNow(r)
    \/ \E r \in SeqSlots, ok \in BOOLEAN : InsertMessage(r, ok)
    \/ \E r \in SeqSlots, ok \in BOOLEAN : ReadMessage(r, ok)
    \/ \E r \in SeqSlots, ok \in BOOLEAN : WriteMessage(r, ok)
    \/ \E r \in SeqSlots, ok \in BOOLEAN : RereadMessage(r, ok)
    \/ \E r \in SeqSlots, ok \in BOOLEAN : BroadcastAndReturn(r, ok)

SpecMsgSeq == MsgSeqInit /\ [][NextMsgSeq]_vars

(***************************************************************************)
(* The keyset listings (SpecList): get_chats (handlers/chats.rs) and       *)
(* get_messages (handlers/messages.rs), walked page by page by a client    *)
(* that sends back the cursor it was given, while post_message requests    *)
(* run.  A statement of a listing that fails returns an error and leaves   *)
(* the walk where it was, so failures add no state and are left out.       *)
(***************************************************************************)
MAX_CHATS_LIMIT == 100
MAX_MESSAGES_LIMIT == 100
\* '1970-01-01'::timestamptz; every created_at is later
EPOCH == 0
\* the limit and max parameters the clients send (<<>>: none)
LimitInputs == {<<>>, <<0>>, <<1>>, <<2>>}
\* the instants Utc::now() takes while the listings run
ListInstants == {2}
\* the uid and the chat of the walks
WalkUid == 1
WalkChat == 1

\* the clamp without its floor
ClampLimitNoFloor(l, max_limit) ==
    IF l = <<>> THEN max_limit
    ELSE IF l[1] < max_limit THEN l[1] ELSE max_limit

\* q.limit.map(|l| min(l, MAX)).unwrap_or(MAX).max(1); l is the Option:
\* <<>> when the parameter is absent, <<n>> otherwise
ClampLimit(l, max_limit) ==
    LET capped == IF l = <<>> THEN max_limit
                  ELSE IF l[1] < max_limit THEN l[1] ELSE max_limit
    IN IF capped < 1 THEN 1 ELSE capped

\* rows.into_iter().take(limit)
Take(rows, limit) == SubSeq(rows, 1, IF Len(rows) < limit THEN Len(rows) ELSE limit)

\* has_more read as rows.len() >= limit
has_more_at_limit(rows, limit) == Len(rows) >= limit

\* let has_more = rows.len() as i64 > limit
has_more(rows, limit) == Len(rows) > limit

\* has_more.then(|| items.last().map(|c| c.id)).flatten()
next_cursor(rows, limit) ==
    IF has_more(rows, limit) /\ Take(rows, limit) # <<>>
    THEN Take(rows, limit)[Len(Take(rows, limit))].id
    ELSE NULL

\* (SELECT max(m.created_at) FROM messages m WHERE m.chat_id = g.id)
last_message_at(msgs, chat_id) ==
    LET ts == {msgs[m].created_at : m \in {i \in DOMAIN msgs : msgs[i].chat_id = chat_id}}
    IN IF ts = {} THEN NULL ELSE CHOOSE t \in ts : \A u \in ts : u <= t

\* groups g INNER JOIN group_membership gm ON gm.chat_id = g.id AND gm.uid = $1
ChatRows(msgs, gm, uid) ==
    {[id |-> g, last_message_at |-> last_message_at(msgs, g)] :
        g \in {c \in Chats : <<c, uid>> \in gm}}

\* ORDER BY last_message_at DESC NULLS LAST, g.id DESC: row a comes before b
ChatBefore(a, b) ==
    \/ a.last_message_at # NULL /\ b.last_message_at = NULL
    \/ /\ a.last_message_at # NULL
       /\ b.last_message_at # NULL
       /\ a.last_message_at > b.last_message_at
    \/ a.last_message_at = b.last_message_at /\ a.id > b.id

\* the chat rows of S in the order ChatBefore, cut at `limit` rows
RECURSIVE OrderChats(_, _)
OrderChats(S, limit) ==
    IF S = {} \/ limit <= 0 THEN <<>>
    ELSE LET first == CHOOSE a \in S : \A b \in S \ {a} : ChatBefore(a, b)
         IN <<first>> \o OrderChats(S \ {first}, limit - 1)

COALESCE(t) == IF t = NULL THEN EPOCH ELSE t

\* the row comparison without COALESCE: (last_message_at, id) < ($2, $3) is
\* NULL, and the row is not selected, when a timestamp it needs is NULL
AfterCursorNoCoalesce(row, cursor_at, cursor_id) ==
    /\ row.last_message_at # NULL
    /\ cursor_at # NULL
    /\ \/ row.last_message_at < cursor_at
       \/ row.last_message_at = cursor_at /\ row.id < cursor_id

\* (COALESCE(last_message_at, epoch), id) < (COALESCE($2, epoch), $3)
AfterCursor(row, cursor_at, cursor_id) ==
    \/ COALESCE(row.last_message_at) < COALESCE(cursor_at)
    \/ COALESCE(row.last_message_at) = COALESCE(cursor_at) /\ row.id < cursor_id

\* the first-page statement of get_chats, LIMIT limit + 1
ChatsFirstPage(msgs, gm, uid, limit) ==
    OrderChats(ChatRows(msgs, gm, uid), limit + 1)

\* a cursor statement that looks the chat up among all groups
ChatCursorRowAnyMember(msgs, gm, uid, after_id) ==
    IF after_id \in Chats
    THEN <<[id |-> after_id, last_message_at |-> last_message_at(msgs, after_id)]>>
    ELSE <<>>

\* the cursor statement of get_chats: the cursor chat's row, <<>> if the
\* caller is not a member of a chat with that id
ChatCursorRow(msgs, gm, uid, after_id) ==
    LET hit == {r \in ChatRows(msgs, gm, uid) : r.id = after_id}
    IN IF hit = {} THEN <<>> ELSE <<CHOOSE r \in hit : TRUE>>

\* the rows the cursor-page statement of get_chats selects from
ChatsAfter(msgs, gm, uid, cursor_at, cursor_id) ==
    {r \in ChatRows(msgs, gm, uid) : AfterCursor(r, cursor_at, cursor_id)}

\* the cursor-page statement of get_chats, LIMIT limit + 1
ChatsCursorPage(msgs, gm, uid, cursor_at, cursor_id, limit) ==
    OrderChats(ChatsAfter(msgs, gm, uid, cursor_at, cursor_id), limit + 1)

\* dsl::id.lt(before) read as id <= before
IdLe(id, before) == id <= before

\* dsl::id.lt(before)
IdLt(id, before) == id < before

\* the rows the statement of get_messages selects from
MessagesBefore(msgs, chat_id, before) ==
    {msgs[m] : m \in {i \in DOMAIN msgs :
                        /\ msgs[i].chat_id = chat_id
                        /\ (before = NULL \/ IdLt(i, before))}}

\* .order(dsl::id.desc())
IdDesc(a, b) == a.id > b.id

\* the message rows of S in the order IdDesc, cut at `limit` rows
RECURSIVE OrderMessages(_, _)
OrderMessages(S, limit) ==
    IF S = {} \/ limit <= 0 THEN <<>>
    ELSE LET first == CHOOSE a \in S : \A b \in S \ {a} : IdDesc(a, b)
         IN <<first>> \o OrderMessages(S \ {first}, limit - 1)

\* the statement of get_messages, .limit(max + 1)
MessagesPage(msgs, chat_id, before, max) ==
    OrderMessages(MessagesBefore(msgs, chat_id, before), max + 1)

\* the ids of a page
Ids(rows) == [i \in 1..Len(rows) |-> rows[i].id]

\* the timestamps the items of a page carry: last_message_at of a
\* ChatListItem, created_at of a message
Stamps(rows) ==
    [i \in 1..Len(rows) |->
        IF "last_message_at" \in DOMAIN rows[i] THEN rows[i].last_message_at
        ELSE rows[i].created_at]

\* when the walks start: uid 1 is a member of chats 1, 2 and 3; chat 1 holds
\* messages 1 and 3, chat 2 message 2, chat 3 none; no socket is connected
ListInit ==
    /\ inner = <<>>
    /\ NEXT_CONN_ID = 0
    /\ last_ping_at = [c \in ConnIds |-> 0]
    /\ chan = [c \in ConnIds |-> <<>>]
    /\ rx = [c \in ConnIds |-> "none"]
    /\ now = 1
    /\ sock = [c \in ConnIds |-> NoSock]
    /\ sweep = SweepIdle
    /\ bcast = BcastIdle
    /\ messages = (1 :> NewMessage(1, "a", NULL, 1, 1, 1))
                    @@ (2 :> NewMessage(2, "a", NULL, 1, 2, 1))
                    @@ (3 :> NewMessage(3, "a", NULL, 1, 1, 1))
    /\ group_membership = {<<1, 1>>, <<2, 1>>, <<3, 1>>}
    /\ id_gen = 4
    /\ reqs = [r \in Slots |-> IdleReq]
    /\ NoWalk

\* the variables a listing leaves alone
ListFrame == <<regVars, now, sock, sweep, bcast, dbVars>>

\* what the client holds after a page: the page, the cursor for the next
\* request, and whether the listing is exhausted
AfterPage(walk, rows, limit) ==
    [walk EXCEPT !.pages = Append(@, Ids(Take(rows, limit))),
                 !.stamps = Append(@, Stamps(Take(rows, limit))),
                 !.effective = limit,
                 !.next_cursor = next_cursor(rows, limit),
                 !.cursor = next_cursor(rows, limit),
                 !.cursor_at = NULL,
                 !.pc = IF next_cursor(rows, limit) = NULL THEN "done" ELSE "ready"]

\* a client starts to walk its chats with the parameter limit = l
StartChatWalk(l) ==
    /\ chat_walk.pc = "idle"
    /\ msg_walk.pc = "idle"
    /\ chat_walk' = [WalkIdle EXCEPT !.pc = "ready", !.limit = l]
    /\ UNCHANGED <<msg_walk, ListFrame>>

\* get_chats without `after`: one statement
GetChatsFirst ==
    /\ chat_walk.pc = "ready"
    /\ chat_walk.cursor = NULL
    /\ LET limit == ClampLimit(chat_walk.limit, MAX_CHATS_LIMIT)
       IN chat_walk' = AfterPage(chat_walk,
             ChatsFirstPage(messages, group_membership, WalkUid, limit), limit)
    /\ UNCHANGED <<msg_walk, ListFrame>>

\* get_chats with `after`, first statement: the cursor chat's current
\* last_message_at; an empty page without cursor if there is no such chat
GetChatsCursor ==
    /\ chat_walk.pc = "ready"
    /\ chat_walk.cursor # NULL
    /\ LET cursor == ChatCursorRow(messages, group_membership, WalkUid, chat_walk.cursor)
       IN chat_walk' =
             IF cursor = <<>>
             THEN [chat_walk EXCEPT !.pages = Append(@, <<>>),
                                    !.stamps = Append(@, <<>>), !.next_cursor = NULL,
                                    !.cursor = NULL, !.pc = "done"]
             ELSE [chat_walk EXCEPT !.cursor_at = cursor[1].last_message_at, !.pc = "query"]
    /\ UNCHANGED <<msg_walk, ListFrame>>

\* get_chats with `after`, second statement: the page after the cursor
GetChatsAfter ==
    /\ chat_walk.pc = "query"
    /\ LET limit == ClampLimit(chat_walk.limit, MAX_CHATS_LIMIT)
       IN chat_walk' = AfterPage(chat_walk,
             ChatsCursorPage(messages, group_membership, WalkUid,
                             chat_walk.cursor_at, chat_walk.cursor, limit), limit)
    /\ UNCHANGED <<msg_walk, ListFrame>>

\* the client is done with its walk
EndChatWalk ==
    /\ chat_walk.pc = "done"
    /\ msg_walk.pc = "idle"
    /\ chat_walk' = WalkIdle
    /\ UNCHANGED <<msg_walk, ListFrame>>

\* a client starts to walk the messages of WalkChat with the parameter max = l
StartMsgWalk(l) ==
    /\ chat_walk.pc \in {"idle", "done"}
    /\ msg_walk.pc = "idle"
    /\ msg_walk' = [WalkIdle EXCEPT !.pc = "ready", !.limit = l,
                       !.initial = {m \in DOMAIN messages : messages[m].chat_id = WalkChat}]
    /\ UNCHANGED <<chat_walk, ListFrame>>

\* get_messages: check_membership, then one statement, with or without
\* `before`
GetMessages ==
    /\ msg_walk.pc = "ready"
    /\ check_membership(group_membership, WalkChat, WalkUid)
    /\ LET max == ClampLimit(msg_walk.limit, MAX_MESSAGES_LIMIT)
       IN msg_walk' = AfterPage(msg_walk,
             MessagesPage(messages, WalkChat, msg_walk.cursor, max), max)
    /\ UNCHANGED <<chat_walk, ListFrame>>

EndMsgWalk ==
    /\ msg_walk.pc = "done"
    /\ msg_walk' = WalkIdle
    /\ UNCHANGED <<chat_walk, ListFrame>>

NextList ==
    \/ \E t \in ListInstants : Tick(t)
    \/ \E l \in LimitInputs : StartChatWalk(l)
    \/ GetChatsFirst
    \/ GetChatsCursor
    \/ GetChatsAfter
    \/ EndChatWalk
    \/ \E l \in LimitInputs : StartMsgWalk(l)
    \/ GetMessages
    \/ EndMsgWalk
    \/ \E r \in Slots, chat_id \in Chats : PostMessage(r, WalkUid, chat_id, "b", NULL)
    \/ \E r \in Slots, ok \in BOOLEAN : CheckMembership(r, ok)
    \/ \E r \in Slots, ok \in BOOLEAN : NextMessageId(r, ok)
    \/ \E r \in Slots : UtcNow(r)
    \/ \E r \in Slots, ok \in BOOLEAN : InsertMessage(r, ok)
    \/ \E r \in Slots, ok \in BOOLEAN : BroadcastAndReturn(r, ok)

SpecList == ListInit /\ [][NextList]_vars

(***************************************************************************)
(* A walk of get_chats over chats without messages (SpecChats).            *)
(***************************************************************************)
\* when the walk starts: uid 1 is a member of chats 1, 2 and 3; chat 1 holds
\* message 1, chats 2 and 3 hold none; no socket is connected
ChatsInit ==
    /\ inner = <<>>
    /\ NEXT_CONN_ID = 0
    /\ last_ping_at = [c \in ConnIds |-> 0]
    /\ chan = [c \in ConnIds |-> <<>>]
    /\ rx = [c \in ConnIds |-> "none"]
    /\ now = 1
    /\ sock = [c \in ConnIds |-> NoSock]
    /\ sweep = SweepIdle
    /\ bcast = BcastIdle
    /\ messages = (1 :> NewMessage(1, "a", NULL, 1, 1, 1))
    /\ group_membership = {<<1, 1>>, <<2, 1>>, <<3, 1>>}
    /\ id_gen = 2
    /\ reqs = [r \in Slots |-> IdleReq]
    /\ NoWalk

NextChats ==
    \/ \E t \in ListInstants : Tick(t)
    \/ \E l \in LimitInputs : StartChatWalk(l)
    \/ GetChatsFirst
    \/ GetChatsCursor
    \/ GetChatsAfter
    \/ EndChatWalk
    \/ \E r \in Slots, chat_id \in Chats : PostMessage(r, WalkUid, chat_id, "b", NULL)
    \/ \E r \in Slots, ok \in BOOLEAN : CheckMembership(r, ok)
    \/ \E r \in Slots, ok \in BOOLEAN : NextMessageId(r, ok)
    \/ \E r \in Slots : UtcNow(r)
    \/ \E r \in Slots, ok \in BOOLEAN : InsertMessage(r, ok)
    \/ \E r \in Slots, ok \in BOOLEAN : BroadcastAndReturn(r, ok)

SpecChats == ChatsInit /\ [][NextChats]_vars

(***************************************************************************)
(* Requests of members and of callers that are no members (SpecMember):    *)
(* the message handlers and get_messages run while members leave the chat  *)
(* (handlers/members.rs, delete_member).                                   *)
(***************************************************************************)
\* get_messages without `before` and `max`, as a request
ListMessages(r, uid, chat_id) ==
    /\ FreeSlot(r)
    /\ reqs' = [reqs EXCEPT ![r] = [IdleReq EXCEPT !.op = "list", !.pc = "membership",
                   !.uid = uid, !.chat_id = chat_id]]
    /\ UNCHANGED <<messages, group_membership, id_gen, chan, MsgFrame>>

\* the statement of get_messages and its response
LoadMessages(r, ok) ==
    /\ reqs[r].pc = "page"
    /\ LET req == reqs[r]
           max == ClampLimit(<<>>, MAX_MESSAGES_LIMIT)
           rows == MessagesPage(messages, req.chat_id, NULL, max)
       IN reqs' = [reqs EXCEPT ![r] =
                      IF ok
                      THEN [@ EXCEPT !.response = <<[messages |-> Ids(Take(rows, max)),
                                                     next_cursor |-> next_cursor(rows, max)]>>,
                                     !.pc = "done", !.result = "Ok"]
                      ELSE Fail(@, "Storage")]
    /\ UNCHANGED <<messages, group_membership, id_gen, chan, MsgFrame>>

\* delete_member called by a member for itself: check_membership, the count
\* of the target's rows, then the DELETE of the (chat_id, uid) rows
DeleteMember(requester_uid, chat_id, target_uid) ==
    /\ requester_uid = target_uid
    /\ check_membership(group_membership, chat_id, requester_uid)
    /\ group_membership' = group_membership \ {<<chat_id, target_uid>>}
    /\ UNCHANGED <<messages, id_gen, reqs, chan, MsgFrame>>

NextMember ==
    \/ \E r \in Slots, uid \in Uids : PostMessage(r, uid, SeqChat, "b", NULL)
    \/ \E r \in Slots, uid \in Uids : PatchMessage(r, uid, SeqChat, SeqTarget, "b")
    \/ \E r \in Slots, uid \in Uids : DeleteMessage(r, uid, SeqChat, SeqTarget)
    \/ \E r \in Slots, uid \in Uids : ListMessages(r, uid, SeqChat)
    \/ \E uid \in Uids : DeleteMember(uid, SeqChat, uid)
    \/ \E r \in Slots, ok \in BOOLEAN : CheckMembership(r, ok)
    \/ \E r \in Slots, ok \in BOOLEAN : NextMessageId(r, ok)
    \/ \E r \in Slots : UtcNow(r)
    \/ \E r \in Slots, ok \in BOOLEAN : InsertMessage(r, ok)
    \/ \E r \in Slots, ok \in BOOLEAN : ReadMessage(r, ok)
    \/ \E r \in Slots, ok \in BOOLEAN : WriteMessage(r, ok)
    \/ \E r \in Slots, ok \in BOOLEAN : RereadMessage(r, ok)
    \/ \E r \in Slots, ok \in BOOLEAN : LoadMessages(r, ok)
    \/ \E r \in Slots, ok \in BOOLEAN : BroadcastAndReturn(r, ok)

SpecMember == MsgInit /\ [][NextMember]_vars

(***************************************************************************)
(* Adding members (SpecAdd): post_member of handlers/members.rs, statement *)
(* by statement, for two requests at a time.  The rows of uid 1 carry the  *)
(* role "admin", every other row the role "member".                        *)
(***************************************************************************)
\* the rows of the users table
Users == {1, 2}
\* the uids whose membership rows carry the role "admin"
Admins == {1}
\* the uid and role fields of AddMemberBody: uid 3 is no user, "owner" no role
AddUids == {1, 2, 3}
AddRoles == {<<>>, <<"member">>, <<"owner">>}

\* uid 1 is the admin and only member of chat 1; no socket is connected
AddInit ==
    /\ inner = <<>>
    /\ NEXT_CONN_ID = 0
    /\ last_ping_at = [c \in ConnIds |-> 0]
    /\ chan = [c \in ConnIds |-> <<>>]
    /\ rx = [c \in ConnIds |-> "none"]
    /\ now = 0
    /\ sock = [c \in ConnIds |-> NoSock]
    /\ sweep = SweepIdle
    /\ bcast = BcastIdle
    /\ messages = <<>>
    /\ group_membership = {<<1, 1>>}
    /\ id_gen = 1
    /\ reqs = [r \in Slots |-> IdleReq]
    /\ NoWalk

\* group_membership.filter(chat_id, uid).select(role).first().optional()
RoleOf(gm, chat_id, uid) ==
    IF <<chat_id, uid>> \notin gm THEN <<>>
    ELSE IF uid \in Admins THEN <<"admin">> ELSE <<"member">>

\* body.role.unwrap_or_else(|| "member")
RoleOrDefault(role) == IF role = <<>> THEN "member" ELSE role[1]

PostMember(r, requester_uid, chat_id, target_uid, role) ==
    /\ FreeSlot(r)
    /\ reqs' = [reqs EXCEPT ![r] = [IdleReq EXCEPT !.op = "add", !.pc = "admin",
                   !.uid = requester_uid, !.chat_id = chat_id,
                   !.target_uid = target_uid, !.role = role]]
    /\ UNCHANGED <<messages, group_membership, id_gen, chan, MsgFrame>>

\* check_admin_role(conn, chat_id, requester_uid)?
CheckAdminRole(r, ok) ==
    /\ reqs[r].pc = "admin"
    /\ reqs' = [reqs EXCEPT ![r] =
          IF ~ok THEN Fail(@, "Storage")
          ELSE IF RoleOf(group_membership, @.chat_id, @.uid) # <<"admin">>
               THEN Fail(@, "Forbidden")
               ELSE [@ EXCEPT !.pc = "user"]]
    /\ UNCHANGED <<messages, group_membership, id_gen, chan, MsgFrame>>

\* the count of the users rows with body.uid: 404 when it is 0
CheckUserExists(r, ok) ==
    /\ reqs[r].pc = "user"
    /\ reqs' = [reqs EXCEPT ![r] =
          IF ~ok THEN Fail(@, "Storage")
          ELSE IF @.target_uid \notin Users THEN Fail(@, "NotFound")
               ELSE [@ EXCEPT !.pc = "already"]]
    /\ UNCHANGED <<messages, group_membership, id_gen, chan, MsgFrame>>

\* the count of the (chat_id, body.uid) rows is above 0
AlreadyMember(gm, chat_id, uid) == <<chat_id, uid>> \in gm

\* the count of the target's rows, 409 when it is above 0, then the check
\* of the role, 400 when it is neither "admin" nor "member"
CheckAlreadyMember(r, ok) ==
    /\ reqs[r].pc = "already"
    /\ reqs' = [reqs EXCEPT ![r] =
          IF ~ok THEN Fail(@, "Storage")
          ELSE IF AlreadyMember(group_membership, @.chat_id, @.target_uid)
               THEN Fail(@, "Conflict")
               ELSE IF RoleOrDefault(@.role) \notin {"admin", "member"}
                    THEN Fail(@, "InvalidInput")
                    ELSE [@ EXCEPT !.pc = "insert_member"]]
    /\ UNCHANGED <<messages, group_membership, id_gen, chan, MsgFrame>>

\* insert_into(group_membership::table).values(&new_membership): the table
\* holds a (chat_id, uid) pair once, and the INSERT of a pair it holds fails
InsertMembership(r, ok) ==
    /\ reqs[r].pc = "insert_member"
    /\ LET req == reqs[r]
           row == <<req.chat_id, req.target_uid>>
       IN IF ok /\ row \notin group_membership
          THEN /\ group_membership' = group_membership \cup {row}
               /\ reqs' = [reqs EXCEPT ![r].wrote = TRUE, ![r].pc = "username"]
          ELSE /\ group_membership' = group_membership
               /\ reqs' = [reqs EXCEPT ![r] = Fail(@, "Storage")]
    /\ UNCHANGED <<messages, id_gen, chan, MsgFrame>>

\* the read of the username and the 201
GetUsername(r, ok) ==
    /\ reqs[r].pc = "username"
    /\ reqs' = [reqs EXCEPT ![r] =
          IF ok THEN [@ EXCEPT !.pc = "done", !.result = "Ok"] ELSE Fail(@, "Storage")]
    /\ UNCHANGED <<messages, group_membership, id_gen, chan, MsgFrame>>

NextAdd ==
    \/ \E r \in Slots, requester_uid \in Uids, target_uid \in AddUids, role \in AddRoles :
          PostMember(r, requester_uid, 1, target_uid, role)
    \/ \E r \in Slots, ok \in BOOLEAN : CheckAdminRole(r, ok)
    \/ \E r \in Slots, ok \in BOOLEAN : CheckUserExists(r, ok)
    \/ \E r \in Slots, ok \in BOOLEAN : CheckAlreadyMember(r, ok)
    \/ \E r \in Slots, ok \in BOOLEAN : InsertMembership(r, ok)
    \/ \E r \in Slots, ok \in BOOLEAN : GetUsername(r, ok)

SpecAdd == AddInit /\ [][NextAdd]_vars

(***************************************************************************)
(* The fan-out of the message handlers (SpecFanout): requests of uid 1 in  *)
(* chat 1, one after the other, while uid 2 may leave the chat and the     *)
(* socket tasks take events from their channels or end.                    *)
(***************************************************************************)
NextFanout ==
    \/ \E r \in SeqSlots : Alone /\ PostMessage(r, 1, SeqChat, "b", NULL)
    \/ \E r \in SeqSlots : Alone /\ PatchMessage(r, 1, SeqChat, SeqTarget, "b")
    \/ \E r \in SeqSlots : Alone /\ DeleteMessage(r, 1, SeqChat, SeqTarget)
    \/ DeleteMember(2, SeqChat, 2)
    \/ \E conn_id \in ConnIds : Recv(conn_id)
    \/ \E conn_id \in ConnIds : DropReceiver(conn_id)
    \/ \E r \in SeqSlots, ok \in BOOLEAN : CheckMembership(r, ok)
    \/ \E r \in SeqSlots, ok \in BOOLEAN : NextMessageId(r, ok)
    \/ \E r \in SeqSlots : UtcNow(r)
    \/ \E r \in SeqSlots, ok \in BOOLEAN : InsertMessage(r, ok)
    \/ \E r \in SeqSlots, ok \in BOOLEAN : ReadMessage(r, ok)
    \/ \E r \in SeqSlots, ok \in BOOLEAN : WriteMessage(r, ok)
    \/ \E r \in SeqSlots, ok \in BOOLEAN : RereadMessage(r, ok)
    \/ \E r \in SeqSlots, ok \in BOOLEAN : BroadcastAndReturn(r, ok)

SpecFanout == MsgSeqInit /\ [][NextFanout]_vars

(***************************************************************************)
(* get_chats called with any cursor (SpecCursor): the `after` parameter is *)
(* whatever the client sends, a chat of the caller, a chat the caller has  *)
(* left or never was in, or an id no chat has.                             *)
(***************************************************************************)
\* the values of `after`: the chats and an id without a chat
AfterInputs == Chats \cup {4}

\* uid 1 is a member of chats 1 and 2, uid 2 of chats 1 and 3; chats 1 and
\* 2 hold a message each
CursorInit ==
    /\ inner = <<>>
    /\ NEXT_CONN_ID = 0
    /\ last_ping_at = [c \in ConnIds |-> 0]
    /\ chan = [c \in ConnIds |-> <<>>]
    /\ rx = [c \in ConnIds |-> "none"]
    /\ now = 1
    /\ sock = [c \in ConnIds |-> NoSock]
    /\ sweep = SweepIdle
    /\ bcast = BcastIdle
    /\ messages = (1 :> NewMessage(1, "a", NULL, 1, 1, 1))
                    @@ (2 :> NewMessage(2, "a", NULL, 1, 2, 1))
    /\ group_membership = {<<1, 1>>, <<2, 1>>, <<1, 2>>, <<3, 2>>}
    /\ id_gen = 3
    /\ reqs = [r \in Slots |-> IdleReq]
    /\ NoWalk

\* a client calls get_chats with limit = l and after = after_id
StartChatsAfter(l, after_id) ==
    /\ chat_walk.pc = "idle"
    /\ msg_walk.pc = "idle"
    /\ chat_walk' = [WalkIdle EXCEPT !.pc = "ready", !.limit = l, !.cursor = after_id]
    /\ UNCHANGED <<msg_walk, ListFrame>>

NextCursor ==
    \/ \E l \in LimitInputs : StartChatWalk(l)
    \/ \E l \in LimitInputs, after_id \in AfterInputs : StartChatsAfter(l, after_id)
    \/ GetChatsFirst
    \/ GetChatsCursor
    \/ GetChatsAfter
    \/ EndChatWalk
    \/ \E chat_id \in Chats : DeleteMember(WalkUid, chat_id, WalkUid)

SpecCursor == CursorInit /\ [][NextCursor]_vars

(***************************************************************************)
(* The cursor filter of get_chats over every database (SpecOrder): each    *)
(* chat holds no message or one message of either instant, the caller is a *)
(* member of any of the chats, and the cursor is any chat.                 *)
(***************************************************************************)
\* max(created_at) of a chat: none, or an instant after the epoch
OrderStamps == {NULL, 1, 2}

\* chat c holds message c, created at stamps[c], when stamps[c] is an instant
OrderInit ==
    /\ inner = <<>>
    /\ NEXT_CONN_ID = 0
    /\ last_ping_at = [c \in ConnIds |-> 0]
    /\ chan = [c \in ConnIds |-> <<>>]
    /\ rx = [c \in ConnIds |-> "none"]
    /\ now = 2
    /\ sock = [c \in ConnIds |-> NoSock]
    /\ sweep = SweepIdle
    /\ bcast = BcastIdle
    /\ \E stamps \in [Chats -> OrderStamps] :
          messages = [c \in {g \in Chats : stamps[g] # NULL} |->
                         NewMessage(c, "a", NULL, 2, c, stamps[c])]
    /\ \E member_of \in SUBSET Chats :
          group_membership = {<<c, WalkUid>> : c \in member_of}
    /\ id_gen = 4
    /\ reqs = [r \in Slots |-> IdleReq]
    /\ NoWalk

NextOrder ==
    \/ \E after_id \in Chats : StartChatsAfter(<<>>, after_id)
    \/ GetChatsCursor
    \/ GetChatsAfter
    \/ EndChatWalk

SpecOrder == OrderInit /\ [][NextOrder]_vars

(***************************************************************************)
(* The listings called with any limit (SpecLimit): absent, negative, zero, *)
(* in range, at the maximum and above it.                                  *)
(***************************************************************************)
WideLimits == {<<>>} \cup {<<n>> : n \in (-2)..(MAX_CHATS_LIMIT + 2)}

NextLimit ==
    \/ \E l \in WideLimits : StartChatWalk(l)
    \/ GetChatsFirst
    \/ GetChatsCursor
    \/ GetChatsAfter
    \/ EndChatWalk
    \/ \E l \in WideLimits : StartMsgWalk(l)
    \/ GetMessages
    \/ EndMsgWalk

SpecLimit == ListInit /\ [][NextLimit]_vars

(***************************************************************************)
(* Concurrent edits and deletes of one message by its sender (SpecEdit):   *)
(* two requests of uid 1 on message 1 of chat 1, with different bodies.    *)
(***************************************************************************)
NextEdit ==
    \/ \E t \in MsgInstants : Tick(t)
    \/ \E r \in Slots, body \in SeqBodies : PatchMessage(r, 1, SeqChat, SeqTarget, body)
    \/ \E r \in Slots : DeleteMessage(r, 1, SeqChat, SeqTarget)
    \/ \E r \in Slots, ok \in BOOLEAN : CheckMembership(r, ok)
    \/ \E r \in Slots, ok \in BOOLEAN : ReadMessage(r, ok)
    \/ \E r \in Slots, ok \in BOOLEAN : WriteMessage(r, ok)
    \/ \E r \in Slots, ok \in BOOLEAN : RereadMessage(r, ok)
    \/ \E r \in Slots, ok \in BOOLEAN : BroadcastAndReturn(r, ok)

SpecEdit == MsgInit /\ [][NextEdit]_vars

(***************************************************************************)
(* Edits that fail their checks (SpecPatch): members of chat 1 and of chat *)
(* 2 edit and delete message 1 of chat 1 and a message that does not       *)
(* exist, with bodies that are empty, blank or not.                        *)
(***************************************************************************)
PatchBodies == {"b", "", " ", "  ", " b "}

NextPatch ==
    \/ \E r \in Slots, uid \in Uids, chat_id \in MsgChats, message_id \in TargetIds,
          body \in PatchBodies : PatchMessage(r, uid, chat_id, message_id, body)
    \/ \E r \in Slots : DeleteMessage(r, 1, SeqChat, SeqTarget)
    \/ \E r \in Slots, ok \in BOOLEAN : CheckMembership(r, ok)
    \/ \E r \in Slots, ok \in BOOLEAN : ReadMessage(r, ok)
    \/ \E r \in Slots, ok \in BOOLEAN : WriteMessage(r, ok)
    \/ \E r \in Slots, ok \in BOOLEAN : RereadMessage(r, ok)
    \/ \E r \in Slots, ok \in BOOLEAN : BroadcastAndReturn(r, ok)

SpecPatch == MsgInit /\ [][NextPatch]_vars

(***************************************************************************)
(* Claims about the registry.                                              *)
(***************************************************************************)
\* the conn ids the running sweep has collected as stale and not yet trimmed
SweepFound == UNION {sweep.uids_to_trim[i][2] : i \in 1..Len(sweep.uids_to_trim)}

\* C1: under any interleaving of register, remove and pruneStale, a connection
\* returned by register(uid) stays in uid's set until its own
\* remove(uid, conn id) is called or a sweep finds that connection itself
\* stale: a step that takes it out of the set is taken while its own task is
\* in remove_connection or while the sweep holds its id as stale.
C1_StaysUntilOwnRemoveOrStale ==
    [][\A c \in ConnIds :
         (c \in ConnsOf(inner, sock[c].uid) /\ c \notin ConnsOf(inner', sock[c].uid))
            => (sock[c].pc \in {"remove", "remove_key"} \/ c \in SweepFound)]_vars

\* the copies of message a channel with queue q takes out of k try_sends
Accepted(q, open, k) ==
    IF ~open THEN 0
    ELSE IF ChannelCap - Len(q) < k THEN ChannelCap - Len(q) ELSE k

\* the uid whose entry holds conn id c
UidOf(reg, c) == CHOOSE u \in DOMAIN reg : c \in SeqToSet(reg[u])

\* C7: broadcast_to_uids drops only the sends that the target channel itself
\* refuses: every registered connection gets the payload appended once per
\* occurrence of its uid in the input, as far as its own channel has room and
\* a receiver, whatever the state of the other channels (a full one among
\* them), and a full channel is left as it was.
C7_BroadcastIsolatesFullChannel ==
    [][\A uids \in UidLists, message \in Payloads :
         BroadcastToUids(uids, message) =>
            \A c \in ConnIds :
               LET k == IF c \in Registered(inner)
                        THEN Accepted(chan[c], rx[c] = "open",
                                      Occurrences(uids, UidOf(inner, c)))
                        ELSE 0
               IN chan'[c] = chan[c] \o [i \in 1..k |-> message]]_vars

\* C7 witness: two connections of one uid with live receivers, one channel
\* full, the other holding a payload and still having room
C7_Witness ==
    \E u \in DOMAIN inner : \E c, d \in SeqToSet(inner[u]) :
        /\ c # d
        /\ rx[c] = "open" /\ rx[d] = "open"
        /\ Len(chan[c]) = ChannelCap
        /\ Len(chan[d]) > 0 /\ Len(chan[d]) < ChannelCap

\* C8: after prune_stale(max_age) run alone, the registry holds exactly the
\* connections it held before with now - last_ping_at <= max_age, each under
\* its uid and in its old order, and no uid is left with an empty set (with
\* max_age = 300: ages 299 and 300 stay, 301 goes).
C8_PruneKeepsExactlyFresh ==
    [][\A max_age_secs \in MaxAges :
         PruneStale(max_age_secs) =>
            /\ Registered(inner') =
                  {c \in Registered(inner) : now - last_ping_at[c] <= max_age_secs}
            /\ \A u \in DOMAIN inner' :
                  /\ inner'[u] # <<>>
                  /\ u \in DOMAIN inner
                  /\ inner'[u] = SelectSeq(inner[u],
                         LAMBDA c : now - last_ping_at[c] <= max_age_secs)]_vars

\* C8 witness: at 301 s, a connection last pinged at 1 s (300 s ago) is
\* registered and one last pinged at 0 s (301 s ago), whose receiver is still
\* held, is not
C8_Witness ==
    /\ now = PING_TIMEOUT_SECS + 1
    /\ \E c \in Registered(inner) : now - last_ping_at[c] = PING_TIMEOUT_SECS
    /\ \E c \in ConnIds \ Registered(inner) :
          /\ rx[c] = "open"
          /\ now - last_ping_at[c] = PING_TIMEOUT_SECS + 1


(***************************************************************************)
(* Claims about the message handlers.                                      *)
(***************************************************************************)
\* C2: once a message's deleted_at is set, no step changes its row (body,
\* updated_at, deleted_at), whatever edits and deletes run concurrently.
C2_DeletedIsTerminal ==
    [][\A m \in DOMAIN messages :
         messages[m].deleted_at # NULL => messages'[m] = messages[m]]_vars

\* the delete requests for message m that returned Ok
DeletesOk(m) ==
    {r \in Slots : reqs[r].op = "delete" /\ reqs[r].message_id = m /\ reqs[r].result = "Ok"}

\* the requests that broadcast message_deleted for message m
DeletedEvents(m) ==
    {r \in Slots : reqs[r].message_id = m /\ reqs[r].sent # <<>>
                   /\ reqs[r].sent[1].type = "message_deleted"}

\* C3: among the delete requests for one message at most one succeeds and at
\* most one message_deleted event is broadcast; the others fail with
\* AlreadyDeleted.
C3_DeletedExactlyOnce ==
    \A m \in MsgIds :
       /\ Cardinality(DeletesOk(m)) <= 1
       /\ Cardinality(DeletedEvents(m)) <= 1

\* the results of a request that is rejected before its write
Rejections == {"NotFound", "Forbidden", "InvalidState", "InvalidInput", "AlreadyDeleted"}

\* C9: a step puts an event on a channel only if it is the broadcast of a
\* request whose write has succeeded, and a request that was rejected, or
\* whose write failed, has broadcast nothing.
C9_BroadcastOnlyAfterWrite ==
    [][/\ chan' # chan =>
            \E r \in Slots : /\ reqs[r].pc = "members"
                             /\ reqs[r].wrote
                             /\ reqs'[r].sent # <<>>
       /\ \A r \in Slots :
            /\ reqs'[r].sent # <<>> => reqs[r].wrote
            /\ (reqs'[r].result \in Rejections
                  \/ (reqs'[r].result = "Storage" /\ reqs'[r].at \in {"insert", "write"}))
               => reqs'[r].sent = <<>>]_vars

\* one request has written and broadcast to a connected member while the
\* write of another failed
C9_Witness ==
    /\ \E r \in Slots : reqs[r].wrote /\ reqs[r].sent # <<>>
                        /\ \E c \in ConnIds : reqs[r].sent[1] \in SeqToSet(chan[c])
    /\ \E r \in Slots : reqs[r].result = "Storage" /\ reqs[r].at \in {"insert", "write"}
                        /\ reqs[r].sent = <<>>

\* C10: a request whose write has succeeded returns Ok, whatever the
\* statements after the write do.
C10_WriterLearnsPersistence ==
    \A r \in Slots : (reqs[r].pc = "done" /\ reqs[r].wrote) => reqs[r].result = "Ok"


(***************************************************************************)
(* Claims about the listings.                                              *)
(***************************************************************************)
\* the ids on the pages a walk has returned
Returned(walk) == UNION {SeqToSet(walk.pages[n]) : n \in 1..Len(walk.pages)}

\* C4: while messages are created, no chat of page N of a listChats walk is
\* on page N+1, and a finished walk has returned every chat of the user.
C4_ChatWalkStable ==
    /\ \A n \in 1..(Len(chat_walk.pages) - 1) :
          SeqToSet(chat_walk.pages[n]) \cap SeqToSet(chat_walk.pages[n + 1]) = {}
    /\ chat_walk.pc = "done" =>
          {c \in Chats : <<c, WalkUid>> \in group_membership} \subseteq Returned(chat_walk)

\* C5: while messages are inserted, no message is on two pages of a
\* listMessages walk (nor twice on one), and a finished walk has returned
\* every message the chat held when the walk began.
C5_MessageWalkStable ==
    /\ \A n, k \in 1..Len(msg_walk.pages) :
          /\ n # k => SeqToSet(msg_walk.pages[n]) \cap SeqToSet(msg_walk.pages[k]) = {}
          /\ Cardinality(SeqToSet(msg_walk.pages[n])) = Len(msg_walk.pages[n])
    /\ msg_walk.pc = "done" => msg_walk.initial \subseteq Returned(msg_walk)

\* a walk of several pages is finished, and a message was inserted into the
\* chat after the first page was returned
C5_Witness ==
    /\ msg_walk.pc = "done"
    /\ Len(msg_walk.pages) >= 2
    /\ Cardinality(msg_walk.initial) >= 2
    /\ \E m \in DOMAIN messages :
          /\ messages[m].chat_id = WalkChat
          /\ m \notin msg_walk.initial
          /\ m \notin Returned(msg_walk)

\* a page of at most `limit` items whose cursor is there exactly when the
\* statement matches more rows than the page holds, and is the last id
PageOk(page, limit, cursor, matching) ==
    /\ Len(page) <= limit
    /\ cursor # NULL <=> Cardinality(matching) > Len(page)
    /\ cursor # NULL => (page # <<>> /\ cursor = page[Len(page)])

\* the page a step has added to a walk
NewPage(walk_after) == walk_after.pages[Len(walk_after.pages)]

\* C6: every page of a chat or message listing, first or cursor page, holds
\* at most `limit` items, and carries a nextCursor exactly when more rows
\* match the query than the page holds; the cursor is the last item's id.
C6_PageAndCursor ==
    [][/\ GetChatsFirst =>
            PageOk(NewPage(chat_walk'), ClampLimit(chat_walk.limit, MAX_CHATS_LIMIT),
                   chat_walk'.next_cursor,
                   ChatRows(messages, group_membership, WalkUid))
       /\ GetChatsAfter =>
            PageOk(NewPage(chat_walk'), ClampLimit(chat_walk.limit, MAX_CHATS_LIMIT),
                   chat_walk'.next_cursor,
                   ChatsAfter(messages, group_membership, WalkUid,
                              chat_walk.cursor_at, chat_walk.cursor))
       /\ GetMessages =>
            PageOk(NewPage(msg_walk'), ClampLimit(msg_walk.limit, MAX_MESSAGES_LIMIT),
                   msg_walk'.next_cursor,
                   MessagesBefore(messages, WalkChat, msg_walk.cursor))]_vars

\* a chat walk and a message walk have each returned a first page and a
\* cursor page that carry a cursor, and a full last page that carries none
C6_Witness ==
    /\ chat_walk.pc = "done"
    /\ chat_walk.limit = <<1>>
    /\ Len(chat_walk.pages) = 3
    /\ \A n \in 1..3 : Len(chat_walk.pages[n]) = 1
    /\ msg_walk.pc = "done"
    /\ msg_walk.limit = <<1>>
    /\ Len(msg_walk.pages) = 3
    /\ \A n \in 1..3 : Len(msg_walk.pages[n]) = 1


(***************************************************************************)
(* Claims about the message handlers, one request after the other.         *)
(***************************************************************************)
\* C11: when requests run one after the other, the sender's edit of a deleted
\* message ends with InvalidState and the sender's delete of a deleted message
\* with AlreadyDeleted; the request has written nothing and broadcast nothing,
\* and the stored messages and the channels are as they were.
C11_DeletedRejects ==
    [][\A r \in SeqSlots :
         LET req == reqs[r]
             found == FindMessage(messages, req.chat_id, req.message_id)
         IN (/\ ReadMessage(r, TRUE)
             /\ found # <<>>
             /\ found[1].sender_uid = req.uid
             /\ found[1].deleted_at # NULL)
            => /\ reqs'[r].pc = "done"
               /\ reqs'[r].result = IF req.op = "patch" THEN "InvalidState" ELSE "AlreadyDeleted"
               /\ ~reqs'[r].wrote
               /\ reqs'[r].sent = <<>>
               /\ messages' = messages
               /\ chan' = chan]_vars

\* the sender has deleted message 1, then an edit of it was refused with
\* InvalidState and a second delete with AlreadyDeleted
C11_Witness ==
    /\ messages[SeqTarget].deleted_at # NULL
    /\ messages[SeqTarget].message = "a"
    /\ \E r, q, p \in SeqSlots :
          /\ reqs[r].op = "delete" /\ reqs[r].result = "Ok"
          /\ reqs[q].op = "patch" /\ reqs[q].result = "InvalidState"
          /\ reqs[p].op = "delete" /\ reqs[p].result = "AlreadyDeleted"


(***************************************************************************)
(* Claims about the message handlers under concurrent requests.            *)
(***************************************************************************)
\* C12: an edit or delete of a message by a uid that is not its sender ends
\* with Forbidden, having written and broadcast nothing, with the stored
\* messages and the channels as they were; and every step that changes a
\* stored message is the write of a request of that message's sender.
C12_OnlySenderChanges ==
    [][/\ \A r \in Slots :
            LET req == reqs[r]
                found == FindMessage(messages, req.chat_id, req.message_id)
            IN (ReadMessage(r, TRUE) /\ found # <<>> /\ found[1].sender_uid # req.uid)
               => /\ reqs'[r].pc = "done"
                  /\ reqs'[r].result = "Forbidden"
                  /\ ~reqs'[r].wrote
                  /\ reqs'[r].sent = <<>>
                  /\ messages' = messages
                  /\ chan' = chan
       /\ \A m \in DOMAIN messages :
            messages'[m] # messages[m]
               => \E r \in Slots : /\ reqs[r].pc = "write"
                                   /\ reqs'[r].wrote
                                   /\ reqs[r].message_id = m
                                   /\ reqs[r].uid = messages[m].sender_uid]_vars

\* uid 2, a member of chat 1, was refused an edit and a delete of message 1,
\* which uid 1 sent and which is as it was
C12_Witness ==
    /\ messages[1].sender_uid = 1
    /\ messages[1].message = "a"
    /\ messages[1].deleted_at = NULL
    /\ \E r, q \in Slots :
          /\ reqs[r].op = "patch" /\ reqs[r].uid = 2 /\ reqs[r].message_id = 1
          /\ reqs[r].result = "Forbidden" /\ reqs[r].at = "read"
          /\ reqs[q].op = "delete" /\ reqs[q].uid = 2 /\ reqs[q].message_id = 1
          /\ reqs[q].result = "Forbidden" /\ reqs[q].at = "read"


(***************************************************************************)
(* Claims about callers that are no members.                               *)
(***************************************************************************)
\* C13: a create, edit, delete or listMessages request whose caller is not a
\* member of the chat when the handler looks ends there with Forbidden; the
\* handler has done nothing before that look, and the stored messages and the
\* channels are as they were.
C13_NonMemberForbidden ==
    [][\A r \in Slots :
         /\ reqs[r].pc = "membership"
               => (~reqs[r].wrote /\ reqs[r].sent = <<>> /\ reqs[r].response = <<>>)
         /\ (CheckMembership(r, TRUE) /\ <<reqs[r].chat_id, reqs[r].uid>> \notin group_membership)
               => /\ reqs'[r] = [reqs[r] EXCEPT !.pc = "done", !.result = "Forbidden",
                                                !.at = "membership"]
                  /\ messages' = messages
                  /\ id_gen' = id_gen
                  /\ chan' = chan]_vars

\* uid 1, the sender of message 1, has left chat 1 and was then refused an
\* edit of message 1 and a listing of the chat
C13_Witness ==
    /\ messages[SeqTarget].sender_uid = 1
    /\ messages[SeqTarget].message = "a"
    /\ <<SeqChat, 1>> \notin group_membership
    /\ \E r, q \in Slots :
          /\ reqs[r].op = "patch" /\ reqs[r].uid = 1
          /\ reqs[r].result = "Forbidden" /\ reqs[r].at = "membership"
          /\ reqs[q].op = "list" /\ reqs[q].uid = 1
          /\ reqs[q].result = "Forbidden" /\ reqs[q].at = "membership"


\* the edits that have written, in the order of the requests
EditsWritten == {r \in SeqSlots : reqs[r].op = "patch" /\ reqs[r].wrote}

\* C14: when requests run one after the other, the write of an edit leaves
\* the row with that edit's body and the time of that write in updated_at,
\* and created_at, sender, chat, reply and deleted_at as they were, and no
\* other row changes; so the row holds the body of the last edit that wrote.
C14_LastEditWins ==
    [][/\ \A r \in SeqSlots :
            (WriteMessage(r, TRUE) /\ reqs[r].op = "patch")
               => LET m == reqs[r].message_id
                  IN messages' = [messages EXCEPT ![m].message = reqs[r].body,
                                                  ![m].updated_at = now]
       /\ EditsWritten # {} =>
            LET last == CHOOSE r \in EditsWritten : \A q \in EditsWritten : q <= r
            IN messages[SeqTarget].message = reqs[last].body]_vars

\* two edits of message 1 have succeeded one after the other, with different
\* bodies at different times, and the row holds the second one's
C14_Witness ==
    /\ reqs[1].op = "patch" /\ reqs[1].result = "Ok" /\ reqs[1].body = "b"
    /\ reqs[1].response[1].row.updated_at = 0
    /\ reqs[2].op = "patch" /\ reqs[2].result = "Ok" /\ reqs[2].body = "c"
    /\ messages[SeqTarget].message = "c"
    /\ messages[SeqTarget].updated_at = 1
    /\ messages[SeqTarget].deleted_at = NULL


(***************************************************************************)
(* Claims about the order of the chat listing.                             *)
(***************************************************************************)
\* the items of a walk in the order the client received them
RECURSIVE Flatten(_)
Flatten(pages) == IF pages = <<>> THEN <<>> ELSE Head(pages) \o Flatten(Tail(pages))

\* C15: in the pages of a listChats walk, taken one after the other, no item
\* without last activity (a chat with zero messages) comes before an item
\* with last activity (a chat with messages).
C15_EmptyChatsLast ==
    LET shown == Flatten(chat_walk.stamps)
    IN \A i, j \in 1..Len(shown) : (i < j /\ shown[i] = NULL) => shown[j] = NULL

\* the same order within each single page (it holds: ORDER BY ... NULLS LAST)
EmptyLastWithinPage ==
    \A n \in 1..Len(chat_walk.stamps) :
       LET shown == chat_walk.stamps[n]
       IN \A i, j \in 1..Len(shown) : (i < j /\ shown[i] = NULL) => shown[j] = NULL


(***************************************************************************)
(* Claims about the fan-out of the message handlers.                       *)
(***************************************************************************)
\* the live connections of the members of a chat: registered under a member
\* uid, with the receiving end of the channel alive
LiveOfMembers(chat_id) ==
    {c \in ConnIds : /\ rx[c] = "open"
                     /\ \E u \in DOMAIN inner : /\ c \in SeqToSet(inner[u])
                                                /\ <<chat_id, u>> \in group_membership}

\* C16 as stated: the fan-out of a successful create, edit or delete puts
\* exactly one event of its type on the channel of every live connection of
\* every member of the chat, and nothing on any other channel.
C16_EveryLiveMemberConnection ==
    [][\A r \in SeqSlots :
         BroadcastAndReturn(r, TRUE) =>
            /\ reqs'[r].sent[1].type = EventType(reqs[r].op)
            /\ \A c \in ConnIds :
                  chan'[c] = IF c \in LiveOfMembers(reqs[r].chat_id)
                             THEN Append(chan[c], reqs'[r].sent[1])
                             ELSE chan[c]]_vars

\* C16 amended: the fan-out of a successful create, edit or delete puts
\* exactly one event of its type on the channel of every live connection of
\* every member of the chat whose channel has room, and nothing on a full
\* channel nor on any other channel.
C16_EveryLiveMemberConnectionWithRoom ==
    [][\A r \in SeqSlots :
         BroadcastAndReturn(r, TRUE) =>
            /\ reqs'[r].sent[1].type = EventType(reqs[r].op)
            /\ \A c \in ConnIds :
                  chan'[c] = IF c \in LiveOfMembers(reqs[r].chat_id) /\ Len(chan[c]) < ChannelCap
                             THEN Append(chan[c], reqs'[r].sent[1])
                             ELSE chan[c]]_vars

\* message 1 was deleted after two other successful requests: connection 1
\* of member 2, which had taken its events, holds message_deleted, and
\* connection 0 of member 1, whose channel was full, does not
C16_Witness ==
    /\ <<SeqChat, 2>> \in group_membership
    /\ rx[0] = "open" /\ rx[1] = "open"
    /\ Len(chan[0]) = ChannelCap
    /\ \E r \in SeqSlots :
          /\ reqs[r].op = "delete" /\ reqs[r].result = "Ok"
          /\ reqs[r].sent[1] \in SeqToSet(chan[1])
          /\ reqs[r].sent[1] \notin SeqToSet(chan[0])


\* C17: a failure of the id generator or of the INSERT / UPDATE statement
\* ends the request at once with an error: the messages are as before (no
\* new row, the target row untouched), no channel gets an event, the id of
\* the failed create is no row's id, and the request does nothing afterwards.
C17_FailedWriteAborts ==
    [][\A r \in SeqSlots :
         /\ (NextMessageId(r, FALSE) \/ InsertMessage(r, FALSE) \/ WriteMessage(r, FALSE))
               => /\ messages' = messages
                  /\ chan' = chan
                  /\ reqs'[r].pc = "done"
                  /\ reqs'[r].result \in {"IdGen", "Storage"}
                  /\ ~reqs'[r].wrote
                  /\ reqs'[r].sent = <<>>
                  /\ reqs'[r].response = <<>>
                  /\ reqs[r].op = "post" => reqs'[r].message_id \notin DOMAIN messages'
         /\ (reqs[r].pc = "done" /\ reqs[r].result # "Ok" /\ reqs'[r] # reqs[r])
               => reqs'[r].pc = "membership"]_vars

\* a create failed at the id generator, another at its INSERT, and an edit
\* or delete failed at its UPDATE; the seeded message is the only row
C17_Witness ==
    /\ \E r \in SeqSlots : /\ reqs[r].op = "post" /\ reqs[r].at = "idgen"
                           /\ reqs[r].result = "IdGen"
    /\ \E r \in SeqSlots : /\ reqs[r].op = "post" /\ reqs[r].at = "insert"
                           /\ reqs[r].result = "Storage"
    /\ \E r \in SeqSlots : /\ reqs[r].op \in {"patch", "delete"} /\ reqs[r].at = "write"
                           /\ reqs[r].result = "Storage"
    /\ DOMAIN messages = {1}
    /\ \A c \in ConnIds : chan[c] = <<>>


(***************************************************************************)
(* Claims about remove_connection and the connection ids.                  *)
(***************************************************************************)
\* C18: remove(uid, connectionId) removes exactly that connection: in both
\* halves of the call every other registered connection stays under its
\* uid with its channel and last_ping_at unchanged, and when the call
\* returns the uid has an entry exactly when it has a connection.
C18_RemovesExactlyThat ==
    [][\A c \in ConnIds :
         (SockRemoveRetain(c) \/ SockRemoveKey(c)) =>
            /\ \A u \in DOMAIN inner :
                  \A d \in SeqToSet(inner[u]) \ {c} :
                     /\ d \in ConnsOf(inner', u)
                     /\ chan'[d] = chan[d]
                     /\ last_ping_at'[d] = last_ping_at[d]
            /\ c \notin Registered(inner')
            /\ sock'[c].pc = "done" =>
                  (sock[c].uid \in DOMAIN inner' <=> ConnsOf(inner', sock[c].uid) # {})]_vars

\* C19: remove(uid, connectionId) for a connection id that is not in uid's
\* set, or for a uid without an entry, leaves the registry unchanged: the
\* call is over after its first half and inner is as before.
C19_RemoveAbsentIsNoOp ==
    [][\A c \in ConnIds :
         (SockRemoveRetain(c) /\ c \notin ConnsOf(inner, sock[c].uid))
            => (inner' = inner /\ sock'[c].pc = "done")]_vars

\* the number of places of the registry that hold connection c
Holds(reg, c) ==
    Cardinality({<<u, i>> \in (DOMAIN reg) \X (1..MaxConn) :
                    i <= Len(reg[u]) /\ reg[u][i] = c})

\* C20: under any sequence of register, remove, ping and prune_stale, the
\* only id that can enter the registry is the counter's value, which then
\* grows by one and never shrinks; every registered id is below the counter
\* (so an id that left is never handed out or seen again), and each id is
\* held in one place only.
C20_ConnIdsFresh ==
    /\ [](/\ Registered(inner) \subseteq 0..(NEXT_CONN_ID - 1)
          /\ \A c \in ConnIds : Holds(inner, c) <= 1)
    /\ [][/\ NEXT_CONN_ID' >= NEXT_CONN_ID
          /\ Registered(inner') \ Registered(inner) \subseteq {NEXT_CONN_ID}
          /\ Registered(inner') \ Registered(inner) # {} => NEXT_CONN_ID' = NEXT_CONN_ID + 1
          /\ NEXT_CONN_ID' # NEXT_CONN_ID => Registered(inner') \ Registered(inner) = {NEXT_CONN_ID}]_vars

\* connection 0 has left the registry and a later register was given id 1
C20_Witness ==
    /\ NEXT_CONN_ID = 2
    /\ Registered(inner) = {1}
    /\ rx[0] = "open"

(***************************************************************************)
(* Claims about broadcast_to_uids and the socket tasks.                    *)
(***************************************************************************)
\* C21: broadcast_to_uids never waits and never changes who is registered:
\* in every state the call can run to its end for every input, whatever the
\* channels hold and whether their receivers are alive; it leaves inner,
\* every last_ping_at and the receivers as they were, and no channel ever
\* holds more than its capacity.
C21_BroadcastNeverBlocksNorEvicts ==
    /\ [](/\ \A uids \in UidLists, message \in Payloads :
                ENABLED BroadcastToUids(uids, message)
          /\ \A c \in ConnIds : Len(chan[c]) <= ChannelCap)
    /\ [][\A uids \in UidLists, message \in Payloads :
            BroadcastToUids(uids, message) =>
               /\ inner' = inner
               /\ last_ping_at' = last_ping_at
               /\ rx' = rx
               /\ NEXT_CONN_ID' = NEXT_CONN_ID]_vars

\* two registered connections, one with a full channel and a live receiver,
\* the other with its receiver gone: a broadcast to them finds both
C21_Witness ==
    \E c, d \in Registered(inner) :
        /\ rx[c] = "open" /\ Len(chan[c]) = ChannelCap
        /\ rx[d] = "dropped"


\* C22: nothing is queued for a uid that is offline: a broadcast changes no
\* channel of a connection that is not registered when it runs (none at all
\* when no uid of its input has an entry) and still returns; the channel of
\* a connection that has not been registered yet is empty, and register
\* hands out an empty channel, so that what a connection receives was sent
\* after its registration.
C22_NothingQueuedForOffline ==
    /\ [](\A c \in ConnIds : c >= NEXT_CONN_ID => chan[c] = <<>>)
    /\ [][/\ \A uids \in UidLists, message \in Payloads :
               BroadcastToUids(uids, message) =>
                  /\ \A c \in ConnIds \ Registered(inner) : chan'[c] = chan[c]
                  /\ (\A i \in 1..Len(uids) : uids[i] \notin DOMAIN inner) => chan' = chan
          /\ \A uid \in Uids :
               Register(uid) => chan'[NEXT_CONN_ID] = <<>>]_vars

\* a connection holds a payload of an earlier broadcast, and a connection
\* registered later, with a live receiver, holds none
C22_Witness ==
    \E c, d \in Registered(inner) :
        /\ c < d
        /\ chan[c] # <<>> /\ rx[c] = "open"
        /\ chan[d] = <<>> /\ rx[d] = "open"
        /\ UidOf(inner, c) # UidOf(inner, d)


\* C23: a registered connection that gets no further ping is removed in the
\* end although its socket never closes: a connection last pinged at instant
\* t is later absent or pinged again; and when a sweep returns, no
\* connection whose last ping is more than 300 seconds before that sweep's
\* reading of the clock is left in the registry.
C23_UnpingedIsEvicted ==
    /\ \A c \in ConnIds : \A t \in {0, 1} :
          (c \in Registered(inner) /\ last_ping_at[c] = t)
             ~> (c \notin Registered(inner) \/ last_ping_at[c] # t)
    /\ [][SweepEnd =>
            \A c \in Registered(inner) :
               sweep.t - last_ping_at[c] <= PING_TIMEOUT_SECS]_vars

\* connection 0, last pinged at instant 1, with its socket task
\* still in its loop, is gone after the sweep at 302
C23_Witness ==
    /\ now = PING_TIMEOUT_SECS + 2
    /\ NEXT_CONN_ID >= 1
    /\ sock[0].pc = "loop"
    /\ last_ping_at[0] = 1
    /\ 0 \notin Registered(inner)
    /\ sweep.pc = "idle"


\* C24: a socket task that has ended has left no connection of its own in
\* the registry, and a registered connection leaves the registry only in a
\* step of its own task's remove_connection or in a step of the sweep; a
\* connection whose upgrade never completed has no such task and leaves
\* only by the sweep.
C24_LeavesOnlyByOwnExitOrSweep ==
    /\ [](\A c \in ConnIds : sock[c].pc = "done" => c \notin Registered(inner))
    /\ [][\A c \in Registered(inner) \ Registered(inner') :
            \/ SockRemoveRetain(c)
            \/ SockRemoveKey(c)
            \/ SweepTrim
            \/ SweepRemoveKey]_vars


\* C25: a ping received on an open connection sets that connection's
\* last_ping_at to the clock's reading and is answered with one pong; a
\* frame that is not a ping (another type, no type, not JSON, not text)
\* changes no last_ping_at and gets no answer; no other connection's
\* last_ping_at is changed in either case.
C25_PingRefreshesAndPongs ==
    [][\A c \in ConnIds, frame \in ClientFrames, sent \in BOOLEAN :
         SockRecvFrame(c, frame, sent) =>
            /\ \A d \in ConnIds \ {c} : last_ping_at'[d] = last_ping_at[d]
            /\ IF frame.kind = "Text" /\ frame.json /\ "type" \in DOMAIN frame.fields
                  /\ frame.fields["type"] = "ping"
               THEN /\ last_ping_at'[c] = now
                    /\ sock'[c].reply = <<PONG_JSON>>
               ELSE /\ last_ping_at'[c] = last_ping_at[c]
                    /\ sock'[c].reply = <<>>
                    /\ sock'[c].pc = "loop"]_vars

\* connection 0 was pinged at instant 2 and got its pong; connection 1,
\* registered at 1, then took a frame that is not a ping and kept its
\* last_ping_at
C25_Witness ==
    /\ now = 2
    /\ sock[0].pc = "loop" /\ sock[0].reply = <<PONG_JSON>> /\ last_ping_at[0] = 2
    /\ sock[1].pc = "loop" /\ sock[1].reply = <<>> /\ last_ping_at[1] = 1


(***************************************************************************)
(* Claims about the listings' parameters.                                  *)
(***************************************************************************)
\* C26: get_chats with a cursor that is no chat, or a chat the caller is
\* not or no longer a member of, answers with an empty page and no next
\* cursor, without an error, whatever other chats the caller is in.
C26_UnknownCursorEmptyPage ==
    [][(/\ GetChatsCursor
        /\ \/ chat_walk.cursor \notin Chats
           \/ <<chat_walk.cursor, WalkUid>> \notin group_membership)
          => /\ chat_walk'.pages = Append(chat_walk.pages, <<>>)
             /\ chat_walk'.next_cursor = NULL
             /\ chat_walk'.pc = "done"]_vars

\* the caller got chat 2 as its first page of one, left chat 2, and the
\* request with cursor 2 returned an empty page although the caller is still
\* a member of chat 1
C26_Witness ==
    /\ chat_walk.pc = "done"
    /\ chat_walk.pages = <<<<2>>, <<>>>>
    /\ chat_walk.next_cursor = NULL
    /\ <<2, WalkUid>> \notin group_membership
    /\ <<1, WalkUid>> \in group_membership


\* what C27 says the effective limit of the parameter l is
EffectiveLimit(l) ==
    IF l = <<>> THEN 100
    ELSE IF l[1] > 100 THEN 100
    ELSE IF l[1] < 1 THEN 1
    ELSE l[1]

\* C27: whatever limit the caller sends, the limit a page of either listing
\* was cut at lies in 1..100: 100 for an absent value or one above 100, 1
\* for a value below 1, the value itself otherwise; and no page is longer.
C27_EffectiveLimit ==
    \A walk \in {chat_walk, msg_walk} :
        walk.effective # NULL =>
           /\ walk.effective \in 1..100
           /\ walk.effective = EffectiveLimit(walk.limit)
           /\ \A i \in 1..Len(walk.pages) : Len(walk.pages[i]) <= walk.effective

\* a walk of the chats with limit 102 was cut at 100, and a walk of the
\* messages with max -1 at 1
C27_Witness ==
    /\ chat_walk.limit = <<102>> /\ chat_walk.effective = 100
    /\ chat_walk.pc = "done" /\ Len(chat_walk.pages[1]) = 3
    /\ msg_walk.limit = <<-1>> /\ msg_walk.effective = 1
    /\ msg_walk.pc = "done" /\ Len(msg_walk.pages) = 2


(***************************************************************************)
(* Claims about create and edit.                                           *)
(***************************************************************************)
\* the creates that wrote their row
CreatesWritten == {r \in Slots : reqs[r].op = "post" /\ reqs[r].wrote}

\* C28: the INSERT of a create adds exactly one row, under an id no row had,
\* with created_at the instant the handler read, updated_at and deleted_at absent and
\* has_attachments false, and leaves every existing row as it was; no other
\* statement of a create touches the table; and creates with the same chat
\* and the same client_generated_id each have a row of their own, under
\* distinct ids.
C28_CreateWritesOneRow ==
    /\ [][\A r \in Slots :
            /\ InsertMessage(r, TRUE) =>
                  LET req == reqs[r]
                  IN /\ req.message_id \notin DOMAIN messages
                     /\ DOMAIN messages' = DOMAIN messages \cup {req.message_id}
                     /\ \A m \in DOMAIN messages : messages'[m] = messages[m]
                     /\ messages'[req.message_id] =
                           [id |-> req.message_id, message |-> req.body,
                            reply_to_id |-> req.reply_to_id,
                            client_generated_id |-> "k", sender_uid |-> req.uid,
                            chat_id |-> req.chat_id, created_at |-> req.now,
                            updated_at |-> NULL, deleted_at |-> NULL,
                            has_attachments |-> FALSE]
            /\ UtcNow(r) => reqs'[r].now = now
            /\ (reqs[r].op = "post" /\ reqs'[r] # reqs[r] /\ reqs[r].pc # "insert")
                  => messages' = messages]_vars
    /\ [](\A r, q \in CreatesWritten :
            /\ reqs[r].message_id \in DOMAIN messages
            /\ r # q => reqs[r].message_id # reqs[q].message_id)

\* two creates of uid 1 in chat 1 with the same body and the same
\* client_generated_id both returned 201, and the chat holds a row for each
C28_Witness ==
    /\ \A r \in Slots : /\ reqs[r].op = "post" /\ reqs[r].result = "Ok"
                        /\ reqs[r].uid = 1 /\ reqs[r].chat_id = 1 /\ reqs[r].body = "b"
    /\ DOMAIN messages = {1, 2, 3}
    /\ messages[2].client_generated_id = messages[3].client_generated_id
    /\ messages[2].chat_id = messages[3].chat_id


\* C29: the payload of a message_updated or message_deleted event is the
\* row as the re-read after the requester's write found it in the table,
\* whatever the requester sent: the response is the stored row, and the
\* event put on the channels carries that response (with the body of
\* another edit, when one was written in between).
C29_PayloadIsRereadRow ==
    [][\A r \in Slots :
         /\ RereadMessage(r, TRUE) =>
               /\ reqs[r].wrote
               /\ reqs'[r].response =
                     <<[row |-> messages[reqs[r].message_id], reply_to_message |-> <<>>]>>
         /\ BroadcastAndReturn(r, TRUE) =>
               /\ reqs'[r].sent =
                     <<[type |-> IF reqs[r].op = "patch" THEN "message_updated"
                                 ELSE "message_deleted",
                        payload |-> reqs[r].response[1]]>>
               /\ \A c \in ConnIds :
                     chan'[c] # chan[c] => chan'[c] = Append(chan[c], reqs'[r].sent[1])]_vars

\* an edit with body "b" has broadcast message_updated with the body "c" of
\* the other edit, which was written between its write and its re-read
C29_Witness ==
    \E r, q \in Slots :
        /\ reqs[r].op = "patch" /\ reqs[r].body = "b" /\ reqs[r].result = "Ok"
        /\ reqs[r].sent[1].type = "message_updated"
        /\ reqs[r].sent[1].payload.row.message = "c"
        /\ reqs[q].op = "patch" /\ reqs[q].body = "c" /\ reqs[q].wrote
        /\ reqs[r].sent[1] \in SeqToSet(chan[1])


\* the bodies of the model that are empty after trimming
BlankBodies == {"", " ", "  "}

\* C30: an edit by a member fails with NotFound when the chat holds no
\* message of that id (also when another chat does), and with InvalidInput
\* when the new body is empty after trimming; the checks on the row read
\* come in the order NotFound, Forbidden, InvalidState, InvalidInput, the
\* first that applies is the answer, and an edit that fails them ends
\* there, with no row changed and nothing broadcast.
C30_EditChecksInOrder ==
    [][\A r \in Slots :
         (ReadMessage(r, TRUE) /\ reqs[r].op = "patch") =>
            LET req == reqs[r]
                exists == /\ req.message_id \in DOMAIN messages
                          /\ messages[req.message_id].chat_id = req.chat_id
                expected ==
                    IF ~exists THEN "NotFound"
                    ELSE IF messages[req.message_id].sender_uid # req.uid THEN "Forbidden"
                    ELSE IF messages[req.message_id].deleted_at # NULL THEN "InvalidState"
                    ELSE IF req.body \in BlankBodies THEN "InvalidInput"
                    ELSE "none"
            IN /\ messages' = messages
               /\ chan' = chan
               /\ IF expected = "none"
                  THEN reqs'[r] = [req EXCEPT !.pc = "write"]
                  ELSE reqs'[r] = [req EXCEPT !.pc = "done", !.result = expected,
                                              !.at = "read"]]_vars

\* one edit asked for a message of another chat, the other was a blank body
\* for the sender's own message; message 1 is as it was seeded
C30_Witness ==
    /\ \E r \in Slots : /\ reqs[r].op = "patch" /\ reqs[r].result = "NotFound"
                        /\ reqs[r].chat_id = 2 /\ reqs[r].message_id = 1
                        /\ reqs[r].uid = 2 /\ reqs[r].body = " "
    /\ \E r \in Slots : /\ reqs[r].op = "patch" /\ reqs[r].result = "InvalidInput"
                        /\ reqs[r].uid = 1 /\ reqs[r].body = "  "
    /\ messages[1] = NewMessage(1, "a", NULL, 1, 1, 0)
    /\ \A c \in ConnIds : chan[c] = <<>>


\* the ids get_messages can return for a chat: its first page at the
\* greatest limit
ListableIds(msgs, chat_id) ==
    SeqToSet(Ids(MessagesPage(msgs, chat_id, NULL, MAX_MESSAGES_LIMIT)))

\* C31: the write of a delete sets deleted_at of its row and changes no
\* other field of it and no other row, and no step removes a row: the ids
\* get_messages can return for a chat never shrink.
C31_DeleteIsSoft ==
    [][/\ \A chat_id \in Chats :
             ListableIds(messages, chat_id) \subseteq ListableIds(messages', chat_id)
       /\ \A r \in Slots :
             (WriteMessage(r, TRUE) /\ reqs[r].op = "delete") =>
                LET id == reqs[r].message_id
                IN /\ DOMAIN messages' = DOMAIN messages
                   /\ id \in DOMAIN messages
                   /\ messages'[id].deleted_at # NULL
                   /\ [messages'[id] EXCEPT !.deleted_at = NULL]
                         = [messages[id] EXCEPT !.deleted_at = NULL]
                   /\ \A m \in DOMAIN messages \ {id} : messages'[m] = messages[m]]_vars

\* a delete of message 1 answered Ok after an edit had set its body: the
\* row is still listed, with the edit's body and updated_at
C31_Witness ==
    /\ \E r \in Slots : /\ reqs[r].op = "delete" /\ reqs[r].result = "Ok"
                        /\ reqs[r].message_id = 1
    /\ messages[1].deleted_at # NULL
    /\ messages[1].message = "b"
    /\ messages[1].updated_at # NULL
    /\ 1 \in ListableIds(messages, 1)


\* the member chats of uid in the listing order, all of them
FullListing(msgs, gm, uid) == OrderChats(ChatRows(msgs, gm, uid), Cardinality(Chats))

\* the ids of the rows of a listing that come after the row of chat cursor_id
IdsAfter(listing, cursor_id) ==
    LET pos == CHOOSE i \in 1..Len(listing) : listing[i].id = cursor_id
    IN Ids(SubSeq(listing, pos + 1, Len(listing)))

\* C32: whatever timestamps the cursor chat and the other chats have or
\* lack, the page statement of get_chats called with a cursor returns the
\* member chats that stand after the cursor chat in the order
\* last_message_at DESC NULLS LAST, id DESC, and only those.
C32_CursorFilterIsStrictlyAfter ==
    [][GetChatsAfter =>
          chat_walk'.pages =
             Append(chat_walk.pages,
                    IdsAfter(FullListing(messages, group_membership, WalkUid),
                             chat_walk.cursor))]_vars

\* chat 3 has a message, chats 2 and 1 have none; the page after chat 2 (no
\* timestamp) is chat 1 (no timestamp), without chat 3
C32_Witness ==
    /\ last_message_at(messages, 3) = 1
    /\ last_message_at(messages, 2) = NULL
    /\ last_message_at(messages, 1) = NULL
    /\ group_membership = {<<c, WalkUid>> : c \in Chats}
    /\ chat_walk.pc = "done"
    /\ chat_walk.pages = << <<1>> >>


\* C33: of two messages of a chat the one with the greater id was created
\* no earlier and persisted no earlier: every insert into a chat carries an
\* id above the ids the chat already holds, and created_at grows with the id.
C33_IdOrderIsRecency ==
    /\ [](\A m, n \in DOMAIN messages :
             (messages[m].chat_id = messages[n].chat_id /\ m < n) =>
                messages[m].created_at <= messages[n].created_at)
    /\ [][\A r \in Slots :
             InsertMessage(r, TRUE) =>
                \A m \in DOMAIN messages :
                   messages[m].chat_id = reqs[r].chat_id => m < reqs[r].message_id]_vars


\* the created_at of the rows of a chat, soft-deleted rows included
CreatedAts(msgs, chat_id) ==
    {msgs[m].created_at : m \in {i \in DOMAIN msgs : msgs[i].chat_id = chat_id}}

\* the last_message_at get_chats reports for a chat is the greatest
\* created_at of the chat's rows, and NULL exactly when it has none
C34_IsGreatestCreatedAt ==
    \A c \in Chats :
       LET t == last_message_at(messages, c)
       IN IF CreatedAts(messages, c) = {}
          THEN t = NULL
          ELSE /\ t \in CreatedAts(messages, c)
               /\ \A u \in CreatedAts(messages, c) : u <= t

\* the write of an edit or a delete leaves last_message_at of every chat
\* and the listing of every user as they were
C34_EditAndDeleteKeepIt ==
    \A r \in Slots :
       WriteMessage(r, TRUE) =>
          /\ \A c \in Chats : last_message_at(messages', c) = last_message_at(messages, c)
          /\ \A uid \in Uids :
                OrderChats(ChatRows(messages', group_membership, uid), Cardinality(Chats))
                   = OrderChats(ChatRows(messages, group_membership, uid), Cardinality(Chats))

\* C34: the last activity of a chat is the greatest created_at of its
\* messages, soft-deleted ones included, and absent exactly when the chat
\* has no message; the insert of a create makes it the new message's
\* created_at; an edit and a delete change neither it nor the place of a
\* chat in the listing.
C34_LastActivity ==
    /\ [](C34_IsGreatestCreatedAt)
    /\ [][/\ C34_EditAndDeleteKeepIt
          /\ \A r \in Slots :
                InsertMessage(r, TRUE) =>
                   last_message_at(messages', reqs[r].chat_id) = reqs[r].now]_vars


(***************************************************************************)
(* Claims about the select! loop.                                          *)
(***************************************************************************)
\* C35: while a socket stays open and its writes complete, the channel of
\* a running task cannot stay filled without the payload at its head being taken
\* off and forwarded again and again, and a frame the client has sent
\* cannot wait forever, whatever the other branch has to do; a received
\* ping is answered with one pong in the step that receives it.
C35_NeitherBranchStarves ==
    /\ \A c \in ConnIds :
          \/ []<>(sock[c].pc # "loop" \/ chan[c] = <<>>)
          \/ []<><<chan[c] # <<>> /\ chan'[c] = Tail(chan[c])>>_vars
    /\ \A c \in ConnIds :
          (sock[c].pc = "loop" /\ sock[c].inbox # <<>>) ~> (sock[c].inbox = <<>>)
    /\ [][\A c \in ConnIds :
            (sock[c].inbox = <<PingFrame>> /\ sock'[c].inbox = <<>>) =>
               sock'[c].reply = <<PONG_JSON>>]_vars

\* both branches of the task of connection 0 are ready: its channel is full
\* and a ping of its client is waiting
C35_Witness ==
    /\ sock[0].pc = "loop"
    /\ Len(chan[0]) = ChannelCap
    /\ sock[0].inbox = <<PingFrame>>


(***************************************************************************)
(* Claims about the members.                                               *)
(***************************************************************************)
\* C36: an add-member request that finds its target a member of the chat,
\* at its check or at its INSERT, is answered Conflict and leaves
\* group_membership as it was, also when two requests add the same uid at
\* the same time; the table changes only by the INSERT of a pair it does
\* not hold.
C36_DuplicateAddIsConflict ==
    [][/\ \A r \in Slots :
            ((CheckAlreadyMember(r, TRUE) \/ InsertMembership(r, TRUE))
                /\ <<reqs[r].chat_id, reqs[r].target_uid>> \in group_membership)
              => /\ reqs'[r].result = "Conflict"
                 /\ group_membership' = group_membership
       /\ group_membership' # group_membership =>
            \E r \in Slots :
               /\ InsertMembership(r, TRUE)
               /\ <<reqs[r].chat_id, reqs[r].target_uid>> \notin group_membership
               /\ group_membership' =
                     group_membership \cup {<<reqs[r].chat_id, reqs[r].target_uid>>}]_vars


(***************************************************************************)
(* Claims about a sweep that runs beside the socket tasks.                 *)
(***************************************************************************)
\* C37: a sweep removes only connections that are stale at the moment it
\* removes them: every conn id that a trim of the second loop takes out of
\* the registry has, when the trim runs, a last_ping_at more than
\* PING_TIMEOUT_SECS before the instant the sweep read; a connection whose
\* ping was stored after the scan read it as stale is not removed.
C37_SweepRemovesOnlyStale ==
    [][SweepTrim =>
          \A conn_id \in Registered(inner) \ Registered(inner') :
             IsStale(last_ping_at, sweep.t, PING_TIMEOUT_SECS, conn_id)]_vars


(***************************************************************************)
(* Claims about the order of the events of one message.                    *)
(***************************************************************************)
\* the places of a connection's channel that hold an event about message m
EventsAbout(conn_id, m) ==
    {i \in 1..Len(chan[conn_id]) : chan[conn_id][i].payload.row.id = m}

\* no request is under way, and every request that wrote has broadcast
AllWritesBroadcast ==
    \A r \in Slots : /\ reqs[r].pc \in {"idle", "done"}
                     /\ reqs[r].wrote => reqs[r].result = "Ok"

\* C38: on each connection the events about one message are enqueued in the
\* order in which their writes were persisted: the message event comes
\* before every message_updated or message_deleted event of that message,
\* and once every write has been broadcast the last event enqueued for the
\* message carries the row as the database holds it.
C38_EventsInPersistenceOrder ==
    \A conn_id \in ConnIds, m \in MsgIds :
       LET about == EventsAbout(conn_id, m)
       IN /\ \A i, j \in about :
                (chan[conn_id][j].type = "message" /\ i # j) => j < i
          /\ (about # {} /\ AllWritesBroadcast) =>
                LET last == CHOOSE i \in about : \A j \in about : j <= i
                IN chan[conn_id][last].payload.row = messages[m]


(***************************************************************************)
(* Claims about a connection that a sweep evicted while its task runs.     *)
(***************************************************************************)
\* conn_id was registered and is out of the registry, and its socket task
\* has not started its final remove_connection
Evicted(conn_id) ==
    /\ conn_id < NEXT_CONN_ID
    /\ conn_id \notin Registered(inner)
    /\ sock[conn_id].pc \in {"upgrade", "loop", "remove"}

\* an evicted connection is never put back into the registry, and no
\* broadcast enqueues a payload on its channel
C39_StaysOutAndGetsNothing ==
    [][\A conn_id \in ConnIds :
          Evicted(conn_id) =>
             /\ conn_id \notin Registered(inner')
             /\ Len(chan'[conn_id]) <= Len(chan[conn_id])]_vars

\* a ping on the socket of an evicted connection is still answered with
\* pong and still stored in the last_ping_at of its entry
C39_PingStillAnswered ==
    [][\A conn_id \in ConnIds, sent \in BOOLEAN :
          (Evicted(conn_id) /\ SockPing(conn_id, sent)) =>
             /\ last_ping_at'[conn_id] = now
             /\ sock'[conn_id].reply = <<PONG_JSON>>]_vars

\* C39: after a sweep evicted a connection whose socket task is still
\* running, the connection is never put back into the registry and gets no
\* further broadcast payload, its pings are still answered with pong and
\* still refresh last_ping_at, and the final remove_connection of its task is
\* a no-op: it leaves the registry as it is and returns without going on to
\* remove the uid's key.
C39_EvictedFinalRemoveIsNoOp ==
    /\ C39_StaysOutAndGetsNothing
    /\ C39_PingStillAnswered
    /\ [][\A conn_id \in ConnIds :
             (Evicted(conn_id) /\ SockRemoveRetain(conn_id)) =>
                /\ inner' = inner
                /\ sock'[conn_id].pc = "done"]_vars


(***************************************************************************)
(* Claims about the reply preview.                                         *)
(***************************************************************************)
\* C40: the reply preview that create attaches to a message is always taken
\* from a message of the same chat as the message that carries it: whenever
\* the response of a create holds a preview, the row the preview names is a
\* row of the chat the created message belongs to.
C40_PreviewFromSameChat ==
    \A r \in Slots :
       (/\ reqs[r].op = "post"
        /\ reqs[r].response # <<>>
        /\ reqs[r].response[1].reply_to_message # <<>>) =>
          LET preview == reqs[r].response[1].reply_to_message[1]
          IN /\ preview.id \in DOMAIN messages
             /\ messages[preview.id].chat_id = reqs[r].response[1].row.chat_id

====
